---- MODULE Spec2Model ----
(***************************************************************************)
(* Model of the stonks swing-trading bot (src/main.py, src/screener.py,    *)
(* src/config.py): one trading cycle (run_trading_cycle) stepped through   *)
(* its numbered steps against a broker whose state (positions, open        *)
(* orders, order history, buying power) is the only state that survives a  *)
(* cycle.                                                                  *)
(*                                                                         *)
(* Units: prices and money are integers in mills (1/1000 dollar), so that  *)
(* rounding to the cent is a real operation; time is in whole days.        *)
(***************************************************************************)
EXTENDS Integers, Sequences, FiniteSets, TLC

VARIABLES
    cfg,                \* config.exit and the symbols of the ticker file (immutable)
    now,                \* wall clock, in days
    positions,          \* broker: symbol -> position, for the held symbols
    orders,             \* broker: the open orders
    closedFills,        \* broker: symbol -> filled_at of its closed orders
    buying_power,       \* broker: account.buying_power
    nextId,             \* broker: number of the next order
    pc,                 \* position of the process in run_trading_cycle
    positions_to_close, \* run_trading_cycle: positions_to_close
    eligible_positions, \* run_trading_cycle: eligible positions still to visit in Step 1c
    closeVisited,       \* run_trading_cycle: symbols already visited by the loop of Step 1d
    current_positions,  \* run_trading_cycle: current_positions
    available_capital,  \* run_trading_cycle: available_capital
    results,            \* run_trading_cycle: results of analyze
    filtered,           \* run_trading_cycle: trades still to visit in Step 6
    orders_placed,      \* run_trading_cycle: orders_placed
    faults,             \* environment: broker and data calls that failed or hung so far
    calls,              \* history: broker calls made by the last step
    hist,               \* history: what the current cycle has done so far
    minute,             \* wall clock, minutes since midnight at the venue
    session,            \* venue: the trading session of the day
    next_run,           \* bot_main: next_run
    today               \* history: when bot_main first looked at the day, and its cycles

vars == <<cfg, now, positions, orders, closedFills, buying_power, nextId, pc,
          positions_to_close, eligible_positions, closeVisited,
          current_positions, available_capital, results, filtered,
          orders_placed, faults, calls, hist, minute, session, next_run, today>>

schedVars == <<minute, session, next_run, today>>

brokerVars == <<positions, orders, closedFills, buying_power, nextId>>
cycleVars == <<positions_to_close, eligible_positions, closeVisited,
               current_positions, available_capital, results, filtered,
               orders_placed>>

----------------------------------------------------------------------------
(* Bounds *)

Syms == {"A", "B"}
MaxTime == 2
MaxOrders == 2
MaxTickers == 2
MaxFaults == 1
HoldDays == 1
BuyingPowers == {2000000}
PriceLevels == {9800, 10300}

----------------------------------------------------------------------------
(* Configuration defaults, src/config.py ExitConfig *)

trailing_stop_activation_pct == 3
trailing_stop_trail_pct == 5
short_trailing_stop_activation_pct == 2
short_trailing_stop_trail_pct == 3

\* AnalysisConfig.base_risk_percent, 0.5 percent, in thousandths of the
\* account
base_risk_percent == 5

ExitConfigs(universes) ==
    [ema_exit_enabled : BOOLEAN,
     max_hold_days : {0, HoldDays},
     trailing_stop_enabled : BOOLEAN,
     base_risk_percent : {base_risk_percent},
     universe : universes]

\* BASE_RISK_PERCENT set in the environment
WithBaseRisk(configs, percents) ==
    {[c EXCEPT !.base_risk_percent = b] : c \in configs, b \in percents}

calendar_exit_enabled(c) == c.max_hold_days > 0

any_exit_enabled_Always(c) == TRUE

any_exit_enabled(c) ==
    c.ema_exit_enabled \/ calendar_exit_enabled(c) \/ c.trailing_stop_enabled

----------------------------------------------------------------------------
(* Broker state *)

NoDate == -1

NullOrder ==
    [id |-> 0, symbol |-> "", type |-> "", role |-> "", side |-> "", qty |-> 0,
     limit_price |-> 0, stop_price |-> 0, take_profit |-> 0,
     trail_percent |-> 0, time_in_force |-> "", order_class |-> ""]

ExitRoles == {"stop_loss", "take_profit", "trailing_stop"}

Held == DOMAIN positions

OpenOrders(symbol) == {o \in orders : o.symbol = symbol}

MinOf(S) == CHOOSE x \in S : \A y \in S : x <= y

RECURSIVE SortById(_)
SortById(S) ==
    IF S = {} THEN <<>>
    ELSE LET m == CHOOSE o \in S : \A p \in S : o.id <= p.id
         IN <<m>> \o SortById(S \ {m})

\* What a call that hands back no data returns
NoBars ==
    [len |-> 0, close |-> 0, sma_50 |-> 0, sma_200 |-> 0,
     volume |-> 0, avg_volume_20 |-> 0]

Call(op, symbol, id, ok, order) ==
    [op |-> op, symbol |-> symbol, id |-> id, ok |-> ok, order |-> order,
     bars |-> NoBars]

\* yf.download(ticker, ...): the bars it returned, none when it raised
Download(ticker, ok, df) ==
    [Call("download", ticker, 0, ok, NullOrder) EXCEPT
        !.bars = IF ok THEN df ELSE NoBars]

Abs(x) == IF x < 0 THEN -x ELSE x

----------------------------------------------------------------------------
(* Exit rules *)

\* The entry date taken as the beginning of time where none is known.
get_position_entry_date_Epoch(symbol, raises) ==
    IF raises THEN 0
    ELSE LET opening_orders == closedFills[symbol]
         IN IF opening_orders = {} THEN 0 ELSE MinOf(opening_orders)

\* get_position_entry_date: the earliest filled_at of the symbol's closed
\* orders, None when there is none or the query raises.
get_position_entry_date(symbol, raises) ==
    IF raises THEN NoDate
    ELSE LET opening_orders == closedFills[symbol]
         IN IF opening_orders = {} THEN NoDate ELSE MinOf(opening_orders)

\* The calendar rule with the boundary day included.
get_positions_older_than_Inclusive(days, raising) ==
    LET cutoff == now - days
    IN {s \in Held :
          LET entry_date == get_position_entry_date(s, s \in raising)
          IN entry_date # NoDate /\ entry_date <= cutoff}

get_positions_older_than(days, raising) ==
    LET cutoff == now - days
    IN {s \in Held :
          LET entry_date == get_position_entry_date(s, s \in raising)
          IN entry_date # NoDate /\ entry_date < cutoff}

NoData == [price |-> -1, ema |-> -1]
EmaResults ==
    {NoData, [price |-> 10, ema |-> 11], [price |-> 11, ema |-> 11],
     [price |-> 11, ema |-> 10]}

\* The EMA rule with a tie counted as a failure.
get_positions_for_ema_exit_Tie(lookup) ==
    {s \in Held :
       LET is_long == positions[s].qty > 0
           result == lookup[s]
       IN /\ result # NoData
          /\ \/ is_long /\ result.price <= result.ema
             \/ ~is_long /\ result.price >= result.ema}

\* The EMA rule closing where the lookup gave nothing.
get_positions_for_ema_exit_OnMissing(lookup) ==
    {s \in Held :
       LET is_long == positions[s].qty > 0
           result == lookup[s]
       IN \/ result = NoData
          \/ is_long /\ result.price < result.ema
          \/ ~is_long /\ result.price > result.ema}

\* get_positions_for_ema_exit: lookup is what get_current_price_and_ema
\* returns for each held symbol.
get_positions_for_ema_exit(lookup) ==
    {s \in Held :
       LET is_long == positions[s].qty > 0
           result == lookup[s]
       IN /\ result # NoData
          /\ \/ is_long /\ result.price < result.ema
             \/ ~is_long /\ result.price > result.ema}

\* The gain test with the threshold itself excluded.
GainReached_Strict(pos, activation_threshold) ==
    IF pos.qty > 0
    THEN (pos.current_price - pos.avg_entry_price) * 100
            > activation_threshold * pos.avg_entry_price
    ELSE (pos.avg_entry_price - pos.current_price) * 100
            > activation_threshold * pos.avg_entry_price

\* gain_percent >= activation_threshold, with
\*   gain_percent = ((current_price - entry_price) / entry_price) * 100 (long)
\*   gain_percent = ((entry_price - current_price) / entry_price) * 100 (short)
\* multiplied through by entry_price, which is positive.
GainReached(pos, activation_threshold) ==
    IF pos.qty > 0
    THEN (pos.current_price - pos.avg_entry_price) * 100
            >= activation_threshold * pos.avg_entry_price
    ELSE (pos.avg_entry_price - pos.current_price) * 100
            >= activation_threshold * pos.avg_entry_price

get_positions_for_trailing_stop(long_activation_percent, short_activation_percent) ==
    {s \in Held :
       LET is_long == positions[s].qty > 0
           activation_threshold ==
               IF is_long THEN long_activation_percent
               ELSE short_activation_percent
       IN GainReached(positions[s], activation_threshold)}

----------------------------------------------------------------------------
(* Order operations.  Each returns the broker state it leaves, the calls  *)
(* it made and its return value; out is what the broker answers.          *)

\* The cancellation loop shared by activate_trailing_stop and
\* close_position_with_cancel: one cancel_order_by_id per open order, a
\* failure is logged and the loop goes on.
CancelCalls(symbol, cancel_fails) ==
    LET open == SortById(OpenOrders(symbol))
    IN [i \in 1..Len(open) |->
          Call("cancel_order_by_id", symbol, open[i].id,
               open[i].id \notin cancel_fails, NullOrder)]

AfterCancel(symbol, cancel_fails) ==
    {o \in orders : o.symbol # symbol \/ o.id \in cancel_fails}

\* What the broker answers to the calls of one order operation: its first
\* call raises, its open-order query raises, these cancellations fail, its
\* last call (the submission or the close) fails.  The calls that fail in
\* a run are bounded by MaxFaults.
Cost(out) ==
    (IF out.first_raises THEN 1 ELSE 0) + (IF out.list_raises THEN 1 ELSE 0)
      + Cardinality(out.cancel_fails) + (IF out.last_fails THEN 1 ELSE 0)

OrderOutcomes(symbol) ==
    {out \in [first_raises : BOOLEAN, list_raises : BOOLEAN,
              cancel_fails : SUBSET {o.id : o \in OpenOrders(symbol)},
              last_fails : BOOLEAN] :
       faults + Cost(out) <= MaxFaults}

\* The broker rejects a submission it is told to reject, and every
\* submission once MaxOrders orders have been accepted.
Rejected(fails) == fails \/ nextId > MaxOrders

\* The quantity never found invalid.
invalid_quantity_Never(qty) == FALSE

\* The else branch of activate_trailing_stop: qty is neither > 0 nor < 0.
invalid_quantity(qty) == ~(qty > 0) /\ ~(qty < 0)

\* The closing side taken to be that of a long whatever the sign.
close_side_AlwaysSell(qty) == "sell"

\* close_side of activate_trailing_stop: SELL closes a long, BUY a short.
close_side(qty) == IF qty > 0 THEN "sell" ELSE "buy"

activate_trailing_stop(symbol, trail_percent, out) ==
    LET unchanged(cs) ==
            [ok |-> FALSE, orders |-> orders, nextId |-> nextId, calls |-> cs]
        getpos(ok) == Call("get_open_position", symbol, 0, ok, NullOrder)
        getord(ok) == Call("get_orders", symbol, 0, ok, NullOrder)
    IN IF out.first_raises \/ symbol \notin Held
       THEN unchanged(<<getpos(FALSE)>>)
       ELSE
       LET qty == positions[symbol].qty
       IN IF invalid_quantity(qty) THEN unchanged(<<getpos(TRUE)>>)
          ELSE IF out.list_raises THEN unchanged(<<getpos(TRUE), getord(FALSE)>>)
          ELSE
          LET abs_qty == IF qty > 0 THEN qty ELSE Abs(qty)
              request ==
                  [NullOrder EXCEPT !.id = 3 * nextId, !.symbol = symbol,
                      !.type = "trailing_stop", !.role = "trailing_stop",
                      !.side = close_side(qty), !.qty = abs_qty,
                      !.trail_percent = trail_percent,
                      !.time_in_force = "gtc"]
              left == AfterCancel(symbol, out.cancel_fails)
              cs == <<getpos(TRUE), getord(TRUE)>>
                      \o CancelCalls(symbol, out.cancel_fails)
          IN IF Rejected(out.last_fails)
             THEN [ok |-> FALSE, orders |-> left, nextId |-> nextId,
                   calls |-> cs \o <<Call("submit_order", symbol, 0, FALSE, request)>>]
             ELSE [ok |-> TRUE, orders |-> left \cup {request},
                   nextId |-> nextId + 1,
                   calls |-> cs \o <<Call("submit_order", symbol, request.id, TRUE, request)>>]

\* close_position_with_cancel with the cancellations outside any try block
\* of their own: the first failed cancellation ends the operation.
close_position_with_cancel_Aborting(symbol, out) ==
    IF out.list_raises
    THEN [orders |-> orders, positions |-> positions, closedFills |-> closedFills,
          calls |-> <<Call("get_orders", symbol, 0, FALSE, NullOrder)>>]
    ELSE
    LET all == CancelCalls(symbol, out.cancel_fails)
        failed == {i \in 1..Len(all) : ~all[i].ok}
        upto == IF failed = {} THEN Len(all) ELSE MinOf(failed)
        done == {all[i].id : i \in {j \in 1..upto : all[j].ok}}
        left == {o \in orders : o.symbol # symbol \/ o.id \notin done}
        cs == <<Call("get_orders", symbol, 0, TRUE, NullOrder)>>
                \o SubSeq(all, 1, upto)
        closed == failed = {} /\ ~out.last_fails /\ symbol \in Held
    IN [orders |-> left,
        positions |->
            IF closed THEN [s \in Held \ {symbol} |-> positions[s]] ELSE positions,
        closedFills |->
            IF closed
            THEN [closedFills EXCEPT ![symbol] = closedFills[symbol] \cup {now}]
            ELSE closedFills,
        calls |->
            IF failed = {}
            THEN cs \o <<Call("close_position", symbol, 0, closed, NullOrder)>>
            ELSE cs]

close_position_with_cancel(symbol, out) ==
    IF out.list_raises
    THEN [orders |-> orders, positions |-> positions, closedFills |-> closedFills,
          calls |-> <<Call("get_orders", symbol, 0, FALSE, NullOrder)>>]
    ELSE
    LET left == AfterCancel(symbol, out.cancel_fails)
        cs == <<Call("get_orders", symbol, 0, TRUE, NullOrder)>>
                \o CancelCalls(symbol, out.cancel_fails)
        closed == ~out.last_fails /\ symbol \in Held
    IN [orders |-> left,
        positions |->
            IF closed THEN [s \in Held \ {symbol} |-> positions[s]] ELSE positions,
        closedFills |->
            IF closed
            THEN [closedFills EXCEPT ![symbol] = closedFills[symbol] \cup {now}]
            ELSE closedFills,
        calls |-> cs \o <<Call("close_position", symbol, 0, closed, NullOrder)>>]

\* The price cut to whole cents.
Round2_Truncating(x) == (x \div 10) * 10

\* round(x, 2) on a price in mills: to the nearest cent, a tie to the even cent.
Round2(x) ==
    LET lo == (x \div 10) * 10
        r == x - lo
    IN IF r < 5 THEN lo
       ELSE IF r > 5 THEN lo + 10
       ELSE IF (lo \div 10) % 2 = 0 THEN lo ELSE lo + 10

\* The LimitOrderRequest of place_bracket_order, as order number k.
BracketRequest(trade, k) ==
    LET order_side == IF trade.side = "buy" THEN "buy" ELSE "sell"
    IN [NullOrder EXCEPT !.id = 3 * k, !.symbol = trade.ticker,
           !.type = "limit", !.role = "entry", !.side = order_side,
           !.qty = trade.quantity,
           !.limit_price = Round2(trade.entry_price),
           !.time_in_force = "gtc", !.order_class = "bracket",
           !.stop_price = Round2(trade.stop_loss),
           !.take_profit = Round2(trade.target_price)]

\* place_bracket_order reporting success whatever the broker answered.
place_bracket_order_AlwaysTrue(trade, fails) ==
    LET request == BracketRequest(trade, nextId)
    IN IF Rejected(fails)
       THEN [ok |-> TRUE, orders |-> orders, nextId |-> nextId,
             calls |-> <<Call("submit_order", trade.ticker, 0, FALSE, request)>>]
       ELSE [ok |-> TRUE, orders |-> orders \cup {request}, nextId |-> nextId + 1,
             calls |-> <<Call("submit_order", trade.ticker, request.id, TRUE, request)>>]

place_bracket_order(trade, fails) ==
    LET request == BracketRequest(trade, nextId)
    IN IF Rejected(fails)
       THEN [ok |-> FALSE, orders |-> orders, nextId |-> nextId,
             calls |-> <<Call("submit_order", trade.ticker, 0, FALSE, request)>>]
       ELSE [ok |-> TRUE, orders |-> orders \cup {request}, nextId |-> nextId + 1,
             calls |-> <<Call("submit_order", trade.ticker, request.id, TRUE, request)>>]

----------------------------------------------------------------------------
(* Screener and position sizer, src/screener.py *)

RISK_PERCENT == 5               \* 0.005, in thousandths
bull_long_multiplier == 2       \* 1.0, in halves
bull_short_multiplier == 1      \* 0.5, in halves
bear_long_multiplier == 1       \* 0.5, in halves
bear_short_multiplier == 2      \* 1.0, in halves
MinBars == 200

\* num / den * 100, kept exact
Pct(num, den) == [num |-> num, den |-> den]
PctGreater(a, b) == a.num * b.den > b.num * a.den

NoIdea ==
    [ticker |-> "", side |-> "", action |-> "", quantity |-> 0,
     entry_price |-> 0, stop_loss |-> 0, target_price |-> 0,
     potential_gain_percent |-> Pct(0, 1), potential_profit |-> 0,
     risk_reward_ratio |-> Pct(0, 1), total_capital |-> 0,
     capital_percent_of_account |-> Pct(0, 1), max_loss |-> 0,
     sma_50 |-> 0, sma_200 |-> 0]

\* The sizer rounding the share count up.
Shares_RoundedUp(account_value, risk_multiplier, risk_per_share) ==
    (account_value * RISK_PERCENT * risk_multiplier + 2000 * risk_per_share - 1)
        \div (2000 * risk_per_share)

\* max_risk_dollars // risk_per_share with
\* max_risk_dollars = account_value * (RISK_PERCENT * risk_multiplier),
\* the thousandths and halves moved into the divisor.
Shares(account_value, risk_multiplier, risk_per_share) ==
    (account_value * RISK_PERCENT * risk_multiplier) \div (2000 * risk_per_share)

_build_trade_result(ticker, side, current_close, stop_loss, target, sma_50, sma_200, account_value, risk_multiplier) ==
    LET risk_per_share == Abs(current_close - stop_loss)
    IN IF risk_per_share <= 0 THEN NoIdea
       ELSE
       LET shares == Shares(account_value, risk_multiplier, risk_per_share)
       IN IF shares = 0 THEN NoIdea
          ELSE
          LET capital_required == shares * current_close
          IN [ticker |-> ticker,
              side |-> side,
              action |-> IF side = "buy" THEN "BUY (Limit)" ELSE "SELL SHORT (Limit)",
              quantity |-> shares,
              entry_price |-> current_close,
              stop_loss |-> stop_loss,
              target_price |-> target,
              potential_gain_percent |-> Pct(Abs(target - current_close), current_close),
              potential_profit |-> Abs(target - current_close) * shares,
              risk_reward_ratio |-> Pct(Abs(target - current_close), risk_per_share),
              total_capital |-> capital_required,
              capital_percent_of_account |-> Pct(capital_required, account_value),
              max_loss |-> shares * risk_per_share,
              sma_50 |-> sma_50,
              sma_200 |-> sma_200]

\* The band taken with its upper edge.
is_long_pullback_Inclusive(current_close, sma_50) ==
    /\ 0 < current_close - sma_50
    /\ (current_close - sma_50) * 100 <= 5 * sma_50

\* 0 < distance_from_50 < 0.05 with
\* distance_from_50 = (current_close - sma_50) / sma_50, sma_50 > 0
is_long_pullback(current_close, sma_50) ==
    /\ 0 < current_close - sma_50
    /\ (current_close - sma_50) * 100 < 5 * sma_50

\* -0.05 < distance_from_50 < 0
is_short_rally(current_close, sma_50) ==
    /\ -5 * sma_50 < (current_close - sma_50) * 100
    /\ current_close - sma_50 < 0

\* The volume filter taken with its edge.
has_volume_Inclusive(current_volume, avg_volume_20) ==
    current_volume * 10 >= avg_volume_20 * 12

\* current_volume > avg_volume_20 * 1.2
has_volume(current_volume, avg_volume_20) ==
    current_volume * 10 > avg_volume_20 * 12

\* df is what the year of daily bars comes to: its length, the last close
\* and volume, and the rolling means the code takes of it.  The products
\* sma_50 * 0.98, sma_50 * 1.02 and risk * 1.5 are whole mills for the
\* market data of the model.
analyze_stock(ticker, account_value, df, raises, long_risk_multiplier, short_risk_multiplier) ==
    IF raises THEN NoIdea
    ELSE IF df.len = 0 \/ df.len < MinBars THEN NoIdea
    ELSE
    LET current_close == df.close
        sma_50 == df.sma_50
        sma_200 == df.sma_200
        is_uptrend == current_close > sma_200
        is_downtrend == current_close < sma_200
    IN IF ~has_volume(df.volume, df.avg_volume_20) THEN NoIdea
       ELSE IF is_uptrend /\ is_long_pullback(current_close, sma_50)
       THEN LET stop_loss == (sma_50 * 98) \div 100
                risk == current_close - stop_loss
                target == current_close + (risk * 3) \div 2
            IN _build_trade_result(ticker, "buy", current_close, stop_loss,
                                   target, sma_50, sma_200, account_value,
                                   long_risk_multiplier)
       ELSE IF is_downtrend /\ is_short_rally(current_close, sma_50)
       THEN LET stop_loss == (sma_50 * 102) \div 100
                risk == stop_loss - current_close
                target == current_close - (risk * 3) \div 2
            IN _build_trade_result(ticker, "sell", current_close, stop_loss,
                                   target, sma_50, sma_200, account_value,
                                   short_risk_multiplier)
       ELSE NoIdea

\* results.sort(key=potential_gain_percent, reverse=True): stable, equal
\* keys keep their order.
RECURSIVE InsertByGain(_, _)
InsertByGain(sorted, x) ==
    IF sorted = <<>> THEN <<x>>
    ELSE IF PctGreater(x.potential_gain_percent, Head(sorted).potential_gain_percent)
    THEN <<x>> \o sorted
    ELSE <<Head(sorted)>> \o InsertByGain(Tail(sorted), x)

RECURSIVE SortByGain(_)
SortByGain(s) ==
    IF s = <<>> THEN <<>>
    ELSE InsertByGain(SortByGain(SubSeq(s, 1, Len(s) - 1)), s[Len(s)])

\* The ticker list scanned twice.
analyze_Rescanning(tickers, account_value, is_bullish, data, raising) ==
    LET long_risk_multiplier ==
            IF is_bullish THEN bull_long_multiplier ELSE bear_long_multiplier
        short_risk_multiplier ==
            IF is_bullish THEN bull_short_multiplier ELSE bear_short_multiplier
        twice == tickers \o tickers
        result(i) ==
            analyze_stock(twice[i], account_value, data[twice[i]],
                          twice[i] \in raising,
                          long_risk_multiplier, short_risk_multiplier)
        found == SelectSeq([i \in 1..Len(twice) |-> result(i)],
                           LAMBDA r : r # NoIdea)
    IN SortByGain(found)

analyze(tickers, account_value, is_bullish, data, raising) ==
    LET long_risk_multiplier ==
            IF is_bullish THEN bull_long_multiplier ELSE bear_long_multiplier
        short_risk_multiplier ==
            IF is_bullish THEN bull_short_multiplier ELSE bear_short_multiplier
        result(i) ==
            analyze_stock(tickers[i], account_value, data[tickers[i]],
                          tickers[i] \in raising,
                          long_risk_multiplier, short_risk_multiplier)
        found == SelectSeq([i \in 1..Len(tickers) |-> result(i)],
                           LAMBDA r : r # NoIdea)
    IN SortByGain(found)

\* The filter refusing an idea that takes the whole of what remains.
RECURSIVE filter_results_Strict(_, _)
filter_results_Strict(rs, remaining_capital) ==
    IF rs = <<>> THEN <<>>
    ELSE LET trade == Head(rs)
         IN IF trade.total_capital < remaining_capital
            THEN <<trade>> \o filter_results_Strict(Tail(rs),
                                remaining_capital - trade.total_capital)
            ELSE filter_results_Strict(Tail(rs), remaining_capital)

\* The filter letting every idea through.
filter_results_Unlimited(rs, remaining_capital) == rs

RECURSIVE filter_results(_, _)
filter_results(rs, remaining_capital) ==
    IF rs = <<>> THEN <<>>
    ELSE LET trade == Head(rs)
         IN IF trade.total_capital <= remaining_capital
            THEN <<trade>> \o filter_results(Tail(rs),
                                remaining_capital - trade.total_capital)
            ELSE filter_results(Tail(rs), remaining_capital)

\* Market data of the model
LongSetup ==
    [len |-> 250, close |-> 10000, sma_50 |-> 9800, sma_200 |-> 9000,
     volume |-> 13, avg_volume_20 |-> 10]
ShortSetup ==
    [len |-> 250, close |-> 10000, sma_50 |-> 10200, sma_200 |-> 11000,
     volume |-> 13, avg_volume_20 |-> 10]
ThinVolume ==
    [len |-> 250, close |-> 10000, sma_50 |-> 9800, sma_200 |-> 9000,
     volume |-> 12, avg_volume_20 |-> 10]
MarketData == {LongSetup, ShortSetup}
Regimes == {TRUE}

\* The ticker files: up to MaxTickers lines, a symbol may be listed twice.
TickerFiles(universe) ==
    UNION {[1..n -> universe] : n \in 1..MaxTickers}

----------------------------------------------------------------------------
(* The venue's calendar and the run times, src/main.py *)

NoRun == -1                     \* next_run = None
WakeMinute == 240               \* 04:00
MinutesBeforeClose == 30

\* get_calendar returns nothing for the day
Closed == [open |-> NoRun, close |-> NoRun]

\* A full session, 09:30 to 16:00, and a short one, 09:30 to 13:00
FullSession == [open |-> 570, close |-> 960]
ShortSession == [open |-> 570, close |-> 780]
Sessions == {Closed, FullSession, ShortSession}

\* The schedule read the day before instead of none.
get_market_schedule_Guessing(day, fails) ==
    IF fails THEN FullSession ELSE day

\* get_market_schedule: None when the calendar is empty or the query raises
get_market_schedule(day, fails) ==
    IF fails \/ day = Closed THEN Closed ELSE day

\* The last run put at the close itself.
calculate_run_times_AtClose(open_time, close_time) ==
    LET duration == close_time - open_time
        midday == open_time + duration \div 2
    IN <<open_time, midday, close_time>>

calculate_run_times(open_time, close_time) ==
    LET duration == close_time - open_time
        midday == open_time + duration \div 2
        before_close == close_time - MinutesBeforeClose
    IN <<open_time, midday, before_close>>

\* The first run time still ahead: for rt in run_times: if now < rt
RECURSIVE FirstAfter_Inclusive(_, _)
FirstAfter_Inclusive(run_times, t) ==
    IF run_times = <<>> THEN NoRun
    ELSE IF t <= Head(run_times) THEN Head(run_times)
    ELSE FirstAfter_Inclusive(Tail(run_times), t)

RECURSIVE FirstAfter(_, _)
FirstAfter(run_times, t) ==
    IF run_times = <<>> THEN NoRun
    ELSE IF t < Head(run_times) THEN Head(run_times)
    ELSE FirstAfter(Tail(run_times), t)

NoCycles == [since |-> NoRun, cycles |-> <<>>]

\* bot_main's loop left out: the clock stands at the open of a full session.
Unscheduled ==
    /\ minute = FullSession.open
    /\ session = FullSession
    /\ next_run = NoRun
    /\ today = NoCycles

----------------------------------------------------------------------------
(* State *)

NoPositions == [s \in {} |-> 0]

HistInit ==
    [tsOpen |-> {},             \* symbols with an open trailing stop when the cycle began
     raising |-> {},            \* Step 1a: symbols whose order history query raised
     old |-> {},                \* Step 1a: symbols of old_positions
     lookup |-> NoPositions,    \* Step 1b: what the price/EMA lookup returned
     ema |-> {},                \* Step 1b: symbols of ema_failures
     tsAttempts |-> {},         \* Step 1c: activate_trailing_stop calls
     activated_count |-> 0,     \* Step 1c: activated_count
     cancelled |-> {},          \* symbols with an order cancelled by the cycle
     held |-> {},               \* Step 2: the position set as read
     capRead |-> FALSE,         \* buying power has been read
     analysed |-> FALSE,        \* Step 4 has evaluated the entries
     placed |-> [s \in Syms |-> 0],  \* Step 6: successful placements per symbol
     turns |-> <<>>]            \* Step 6: what each turn of the loop did

Signed(o) == IF o.side = "buy" THEN o.qty ELSE -o.qty

Opposite(side) == IF side = "buy" THEN "sell" ELSE "buy"

\* The two legs of a bracket, open once its entry has filled.
BracketLegs(o) ==
    {[NullOrder EXCEPT !.id = o.id + 1, !.symbol = o.symbol,
         !.type = "stop", !.role = "stop_loss",
         !.side = Opposite(o.side), !.qty = o.qty,
         !.stop_price = o.stop_price, !.time_in_force = "gtc",
         !.order_class = "bracket"],
     [NullOrder EXCEPT !.id = o.id + 2, !.symbol = o.symbol,
         !.type = "limit", !.role = "take_profit",
         !.side = Opposite(o.side), !.qty = o.qty,
         !.limit_price = o.take_profit, !.time_in_force = "gtc",
         !.order_class = "bracket"]}

\* opened_at is not a field of the broker's position: it keeps the day the
\* position was opened, for the properties of the calendar rule.
PositionFrom(o) ==
    [qty |-> Signed(o), avg_entry_price |-> o.limit_price,
     current_price |-> o.limit_price, opened_at |-> now]

\* What the bot finds at the broker when it starts: nothing, or a position
\* in A that an earlier run of the bot opened with a bracket order, filled
\* at some time up to now, the price having moved since.
InitialBrokers(account_value) ==
    {[positions |-> NoPositions, orders |-> {},
      closedFills |-> [s \in Syms |-> {}]]}
    \cup
    {LET idea == analyze_stock("A", account_value, d, FALSE,
                               bull_long_multiplier, bull_short_multiplier)
         o == BracketRequest(idea, 0)
     IN [positions |-> [s \in {"A"} |->
            [PositionFrom(o) EXCEPT !.current_price = p, !.opened_at = t]],
         orders |-> BracketLegs(o),
         closedFills |-> [s \in Syms |-> IF s = "A" THEN {t} ELSE {}]] :
       d \in {LongSetup, ShortSetup}, p \in PriceLevels, t \in 0..MaxTime}

\* run_trading_cycle has not been called yet.
StartState ==
    /\ pc = "idle"
    /\ positions_to_close = {}
    /\ eligible_positions = {}
    /\ closeVisited = {}
    /\ current_positions = {}
    /\ available_capital = 0
    /\ results = <<>>
    /\ filtered = <<>>
    /\ orders_placed = 0
    /\ faults = 0
    /\ calls = <<>>
    /\ hist = HistInit

\* The bot starts with one of these configurations, at one of the brokers
\* given for the buying power of the account.
InitAt(configs, brokers) ==
    /\ cfg \in configs
    /\ now = MaxTime
    /\ buying_power \in BuyingPowers
    /\ \E b \in brokers[buying_power] :
         /\ positions = b.positions
         /\ orders = b.orders
         /\ closedFills = b.closedFills
    /\ nextId = 1
    /\ StartState
    /\ Unscheduled

Init ==
    InitAt(ExitConfigs({{"A"}}), [v \in BuyingPowers |-> InitialBrokers(v)])

\* A broker that reports a position of quantity zero: the positions of
\* InitialBrokers, their bracket legs still open, with nothing left in them.
ZeroQuantityBrokers(account_value) ==
    {[b EXCEPT !.positions =
         [s \in DOMAIN b.positions |-> [b.positions[s] EXCEPT !.qty = 0]]] :
       b \in {c \in InitialBrokers(account_value) : DOMAIN c.positions # {}}}

\* The bot with the trailing-stop rule enabled at such a broker.
InitZeroQuantity ==
    InitAt({c \in ExitConfigs({{"A"}}) : c.trailing_stop_enabled},
           [v \in BuyingPowers |-> ZeroQuantityBrokers(v)])

\* The held set and the close set of the last cycle are kept.
ResetCycle_Keeping ==
    /\ UNCHANGED <<positions_to_close, current_positions>>
    /\ eligible_positions' = {}
    /\ closeVisited' = {}
    /\ available_capital' = 0
    /\ results' = <<>>
    /\ filtered' = <<>>
    /\ orders_placed' = 0

ResetCycle ==
    /\ positions_to_close' = {}
    /\ eligible_positions' = {}
    /\ closeVisited' = {}
    /\ current_positions' = {}
    /\ available_capital' = 0
    /\ results' = <<>>
    /\ filtered' = <<>>
    /\ orders_placed' = 0

----------------------------------------------------------------------------
(* The broker between two cycles *)

\* An open entry order fills: the position appears (or grows) and the two
\* legs of the bracket become open orders.
FillEntry(o) ==
    /\ pc = "idle"
    /\ o \in orders
    /\ o.role = "entry"
    /\ LET s == o.symbol
           q == IF s \in Held THEN positions[s].qty + Signed(o) ELSE Signed(o)
       IN /\ positions' =
                IF q = 0 THEN [t \in Held \ {s} |-> positions[t]]
                ELSE [t \in Held \cup {s} |->
                        IF t # s THEN positions[t]
                        ELSE IF s \in Held
                        THEN [positions[s] EXCEPT !.qty = q]
                        ELSE PositionFrom(o)]
          /\ orders' = (orders \ {o}) \cup BracketLegs(o)
          /\ closedFills' = [closedFills EXCEPT ![s] = closedFills[s] \cup {now}]
    /\ UNCHANGED <<cfg, schedVars, now, buying_power, nextId, pc, cycleVars, faults, calls, hist>>

----------------------------------------------------------------------------
(* run_trading_cycle *)

\* The steps with the closing loop moved behind the capital read.
StepAfter_CapitalFirst(p) ==
    CASE p = "step1a" -> "step1b"
      [] p = "step1b" -> "step1c"
      [] p = "step1c" -> "step2"
      [] p = "step2" -> "step3"
      [] p = "step3" -> "step1d"
      [] p = "step1d" -> "step4"
      [] p = "step4" -> "step5"
      [] p = "step5" -> "step6"
      [] p = "step6" -> "done"

\* The order of the steps of run_trading_cycle.
StepAfter(p) ==
    CASE p = "step1a" -> "step1b"
      [] p = "step1b" -> "step1c"
      [] p = "step1c" -> "step1d"
      [] p = "step1d" -> "step2"
      [] p = "step2" -> "step3"
      [] p = "step3" -> "step4"
      [] p = "step4" -> "step5"
      [] p = "step5" -> "step6"
      [] p = "step6" -> "done"

ExitCall(c) ==
    \/ c.op \in {"cancel_order_by_id", "close_position"}
    \/ c.op = "submit_order" /\ c.order.type = "trailing_stop"

IssuesExit(cs) == \E i \in 1..Len(cs) : ExitCall(cs[i])

CancelledIn(cs) ==
    {cs[i].symbol : i \in {j \in 1..Len(cs) :
                             cs[j].op = "cancel_order_by_id" /\ cs[j].ok}}

\* run_trading_cycle is called from position p of bot_main
EnterCycle(p) ==
    /\ pc = p
    /\ pc' = "step1a"
    /\ ResetCycle
    /\ calls' = <<>>
    /\ hist' = [HistInit EXCEPT
          !.tsOpen = {o.symbol : o \in {q \in orders : q.type = "trailing_stop"}}]
    /\ UNCHANGED <<cfg, schedVars, now, brokerVars, faults>>

\* bot_main calls run_trading_cycle; main has let it start only with an
\* exit mode enabled.
StartCycle == any_exit_enabled(cfg) /\ EnterCycle("idle")

\* The flagged symbols take the place of the set.
add_Replacing(to_close, flagged) == flagged

\* positions_to_close.add(symbol) for each flagged symbol
add(to_close, flagged) == to_close \cup flagged

\* Step 1a: calendar-based exit
Step1a ==
    /\ pc = "step1a"
    /\ pc' = StepAfter("step1a")
    /\ IF calendar_exit_enabled(cfg)
       THEN \E raising \in SUBSET Held :
              LET old_positions == get_positions_older_than(cfg.max_hold_days, raising)
              IN /\ faults + Cardinality(raising) <= MaxFaults
                 /\ faults' = faults + Cardinality(raising)
                 /\ positions_to_close' = add(positions_to_close, old_positions)
                 /\ hist' = [hist EXCEPT !.raising = raising, !.old = old_positions]
       ELSE UNCHANGED <<positions_to_close, hist, faults>>
    /\ calls' = <<>>
    /\ UNCHANGED <<cfg, schedVars, now, brokerVars, eligible_positions, closeVisited,
                   current_positions, available_capital, results, filtered,
                   orders_placed>>

\* Step 1b: EMA-based exit
Step1b ==
    /\ pc = "step1b"
    /\ pc' = StepAfter("step1b")
    /\ IF cfg.ema_exit_enabled
       THEN \E lookup \in [Held -> EmaResults] :
              LET ema_failures == get_positions_for_ema_exit(lookup)
                  missing == Cardinality({s \in Held : lookup[s] = NoData})
              IN /\ faults + missing <= MaxFaults
                 /\ faults' = faults + missing
                 /\ positions_to_close' = add(positions_to_close, ema_failures)
                 /\ hist' = [hist EXCEPT !.raising = {}, !.lookup = lookup,
                                         !.ema = ema_failures]
       ELSE /\ UNCHANGED <<positions_to_close, faults>>
            /\ hist' = [hist EXCEPT !.raising = {}]
    /\ calls' = <<>>
    /\ UNCHANGED <<cfg, schedVars, now, brokerVars, eligible_positions, closeVisited,
                   current_positions, available_capital, results, filtered,
                   orders_placed>>

\* Step 1c: the positions that have reached their activation threshold
Step1c ==
    /\ pc = "step1c"
    /\ IF cfg.trailing_stop_enabled
       THEN /\ eligible_positions' =
                  get_positions_for_trailing_stop(
                      trailing_stop_activation_pct,
                      short_trailing_stop_activation_pct)
            /\ pc' = IF eligible_positions' = {} THEN StepAfter("step1c")
                     ELSE "step1c_loop"
       ELSE /\ UNCHANGED eligible_positions
            /\ pc' = StepAfter("step1c")
    /\ hist' = [hist EXCEPT !.lookup = NoPositions]
    /\ calls' = <<>>
    /\ UNCHANGED <<cfg, schedVars, now, brokerVars, faults, positions_to_close, closeVisited,
                   current_positions, available_capital, results, filtered,
                   orders_placed>>

\* The check of Step 1c left out.
has_trailing_stop_Unchecked(symbol) == FALSE

\* has_trailing_stop of Step 1c: an open order of the symbol is a trailing stop.
has_trailing_stop(symbol) ==
    \E order \in OpenOrders(symbol) : order.type = "trailing_stop"

\* Step 1c, one turn of the loop over eligible_positions
Step1cPosition(symbol) ==
    /\ pc = "step1c_loop"
    /\ symbol \in eligible_positions
    /\ LET side == IF positions[symbol].qty > 0 THEN "long" ELSE "short"
           trail_percent ==
               IF side = "long" THEN trailing_stop_trail_pct
               ELSE short_trailing_stop_trail_pct
       IN IF ~has_trailing_stop(symbol)
          THEN \E out \in OrderOutcomes(symbol) :
                 LET r == activate_trailing_stop(symbol, trail_percent, out)
                 IN /\ orders' = r.orders
                    /\ nextId' = r.nextId
                    /\ faults' = faults + Cost(out)
                    /\ calls' = r.calls
                    /\ hist' = [hist EXCEPT
                          !.tsAttempts = @ \cup
                              {[symbol |-> symbol, trail_percent |-> trail_percent]},
                          !.activated_count = IF r.ok THEN @ + 1 ELSE @,
                          !.cancelled = @ \cup CancelledIn(r.calls)]
          ELSE /\ calls' = <<>>
               /\ UNCHANGED <<orders, nextId, faults, hist>>
    /\ eligible_positions' = eligible_positions \ {symbol}
    /\ pc' = IF eligible_positions' = {} THEN StepAfter("step1c") ELSE pc
    /\ UNCHANGED <<cfg, schedVars, now, positions, closedFills, buying_power,
                   positions_to_close, closeVisited, current_positions,
                   available_capital, results, filtered, orders_placed>>

\* Step 1d, one turn of the loop over positions_to_close
Step1dClose(symbol) ==
    /\ pc = "step1d"
    /\ symbol \in positions_to_close \ closeVisited
    /\ \E out \in OrderOutcomes(symbol) :
         LET r == close_position_with_cancel(symbol, out)
         IN /\ orders' = r.orders
            /\ positions' = r.positions
            /\ closedFills' = r.closedFills
            /\ faults' = faults + Cost(out)
            /\ calls' = r.calls
            /\ hist' = [hist EXCEPT !.cancelled = @ \cup CancelledIn(r.calls)]
    /\ closeVisited' = closeVisited \cup {symbol}
    /\ UNCHANGED <<cfg, schedVars, now, buying_power, nextId, pc, positions_to_close,
                   eligible_positions, current_positions, available_capital,
                   results, filtered, orders_placed>>

Step1dDone ==
    /\ pc = "step1d"
    /\ positions_to_close \subseteq closeVisited
    /\ pc' = StepAfter("step1d")
    /\ calls' = <<>>
    /\ hist' = [hist EXCEPT !.old = {}, !.ema = {}, !.tsAttempts = {},
                            !.activated_count = 0]
    /\ UNCHANGED <<cfg, schedVars, now, brokerVars, cycleVars, faults>>

\* Step 2: the current positions
Step2 ==
    /\ pc = "step2"
    /\ pc' = StepAfter("step2")
    /\ current_positions' = Held
    /\ hist' = [hist EXCEPT !.held = Held]
    /\ calls' = <<>>
    /\ UNCHANGED <<cfg, schedVars, now, brokerVars, positions_to_close, eligible_positions,
                   closeVisited, available_capital, results, filtered,
                   orders_placed, faults>>

get_available_capital == buying_power

\* Step 3: the available capital
Step3 ==
    /\ pc = "step3"
    /\ pc' = StepAfter("step3")
    /\ available_capital' = get_available_capital
    /\ hist' = [hist EXCEPT !.capRead = TRUE]
    /\ calls' = <<Call("get_account", "", 0, TRUE, NullOrder)>>
    /\ UNCHANGED <<cfg, schedVars, now, brokerVars, positions_to_close, eligible_positions,
                   closeVisited, current_positions, results, filtered,
                   orders_placed, faults>>

\* get_market_regime(): SPY against its 200-day mean, as one bar series
RegimeBars(is_bullish) ==
    [NoBars EXCEPT !.len = MinBars, !.close = IF is_bullish THEN 2 ELSE 1,
                   !.sma_200 = 1]

\* The exception of analyze left uncaught.
AnalyzeFailed_Uncaught == "crashed"

\* except FileNotFoundError / except Exception of Step 4: return
AnalyzeFailed == "done"

\* Step 4: analyze; a missing ticker file or an error ends the cycle.
\* files, regimes and market are what the ticker file, SPY and the bar
\* lookups can come to.
Analyze(files, regimes, market) ==
    /\ pc = "step4"
    /\ \/ /\ faults < MaxFaults
          /\ faults' = faults + 1
          /\ pc' = AnalyzeFailed
          /\ calls' = <<>>
          /\ UNCHANGED <<results, hist>>
       \/ \E tickers \in files, is_bullish \in regimes,
             data \in [cfg.universe -> market], raising \in SUBSET cfg.universe :
            /\ faults + Cardinality(raising) <= MaxFaults
            /\ faults' = faults + Cardinality(raising)
            /\ results' = analyze(tickers, buying_power, is_bullish, data, raising)
            /\ pc' = StepAfter("step4")
            /\ calls' = <<Call("get_account", "", 0, TRUE, NullOrder),
                          Download("SPY", TRUE, RegimeBars(is_bullish))>>
                        \o [i \in 1..Len(tickers) |->
                              Download(tickers[i], tickers[i] \notin raising,
                                       data[tickers[i]])]
            /\ hist' = [hist EXCEPT !.capRead = TRUE, !.analysed = TRUE]
    /\ UNCHANGED <<cfg, schedVars, now, brokerVars, positions_to_close, eligible_positions,
                   closeVisited, current_positions, available_capital, filtered,
                   orders_placed>>

Step4 == Analyze(TickerFiles(cfg.universe), Regimes, MarketData)

\* Step 5: filter by available capital
Step5 ==
    /\ pc = "step5"
    /\ pc' = StepAfter("step5")
    /\ filtered' = filter_results(results, available_capital)
    /\ calls' = <<>>
    /\ UNCHANGED <<cfg, schedVars, now, brokerVars, positions_to_close, eligible_positions,
                   closeVisited, current_positions, available_capital, results,
                   orders_placed, faults, hist>>

\* The held set left as Step 2 read it.
current_positions_add_Forgotten(held, ticker) == held

\* current_positions.add(trade.ticker)
current_positions_add(held, ticker) == held \cup {ticker}

\* One turn of the loop of Step 6, for the history of the cycle
Turn(trade, outcome) == [trade |-> trade, outcome |-> outcome]

\* Step 6, one turn of the loop over filtered
Step6Place ==
    /\ pc = "step6"
    /\ filtered # <<>>
    /\ LET trade == Head(filtered)
       IN IF trade.ticker \notin current_positions
          THEN \E fails \in BOOLEAN :
                 LET r == place_bracket_order(trade, fails)
                 IN /\ fails => faults < MaxFaults
                    /\ faults' = IF fails THEN faults + 1 ELSE faults
                    /\ orders' = r.orders
                    /\ nextId' = r.nextId
                    /\ calls' = r.calls
                    /\ IF r.ok
                       THEN /\ orders_placed' = orders_placed + 1
                            /\ current_positions' =
                                  current_positions_add(current_positions, trade.ticker)
                            /\ hist' = [hist EXCEPT
                                  !.placed[trade.ticker] = @ + 1,
                                  !.turns = Append(@, Turn(trade, "placed"))]
                       ELSE /\ UNCHANGED <<orders_placed, current_positions>>
                            /\ hist' = [hist EXCEPT !.turns = Append(@, Turn(trade, "failed"))]
          ELSE /\ calls' = <<>>
               /\ hist' = [hist EXCEPT !.turns = Append(@, Turn(trade, "skipped"))]
               /\ UNCHANGED <<orders, nextId, orders_placed, current_positions,
                              faults>>
    /\ filtered' = Tail(filtered)
    /\ UNCHANGED <<cfg, schedVars, now, positions, closedFills, buying_power, pc,
                   positions_to_close, eligible_positions, closeVisited,
                   available_capital, results>>

Step6Done ==
    /\ pc = "step6"
    /\ filtered = <<>>
    /\ pc' = StepAfter("step6")
    /\ calls' = <<>>
    /\ UNCHANGED <<cfg, schedVars, now, brokerVars, cycleVars, faults, hist>>

\* run_trading_cycle returns to position p of bot_main; its locals are gone.
LeaveCycle(p) ==
    /\ pc = "done"
    /\ pc' = p
    /\ ResetCycle
    /\ calls' = <<>>
    /\ hist' = HistInit
    /\ UNCHANGED <<cfg, schedVars, now, brokerVars, faults>>

CycleReturn == LeaveCycle("idle")

\* The calls of the cycle that no try block covers: get_all_positions of
\* Steps 1a, 1b, 1c and 2, get_account of Step 3, and the open-order query
\* made for each eligible symbol in the loop of Step 1c.
UncoveredCalls ==
    IF pc \in {"step1a", "step1b", "step1c", "step2"}
    THEN {Call("get_all_positions", "", 0, FALSE, NullOrder)}
    ELSE IF pc = "step3"
    THEN {Call("get_account", "", 0, FALSE, NullOrder)}
    ELSE IF pc = "step1c_loop"
    THEN {Call("get_orders", symbol, 0, FALSE, NullOrder) :
            symbol \in eligible_positions}
    ELSE {}

\* One of them raises: the exception leaves run_trading_cycle and bot_main.
UncaughtError ==
    /\ \/ pc = "step1a" /\ calendar_exit_enabled(cfg)
       \/ pc = "step1b" /\ cfg.ema_exit_enabled
       \/ pc = "step1c" /\ cfg.trailing_stop_enabled
       \/ pc \in {"step1c_loop", "step2", "step3"}
    /\ faults < MaxFaults
    /\ faults' = faults + 1
    /\ pc' = "crashed"
    /\ ResetCycle
    /\ \E c \in UncoveredCalls : calls' = <<c>>
    /\ hist' = HistInit
    /\ UNCHANGED <<cfg, schedVars, now, brokerVars>>

Next ==
    \/ \E o \in orders : FillEntry(o)
    \/ StartCycle
    \/ Step1a
    \/ Step1b
    \/ Step1c
    \/ \E s \in Syms : Step1cPosition(s)
    \/ \E s \in Syms : Step1dClose(s)
    \/ Step1dDone
    \/ Step2
    \/ Step3
    \/ Step4
    \/ Step5
    \/ Step6Place
    \/ Step6Done
    \/ CycleReturn
    \/ UncaughtError

Spec == Init /\ [][Next]_vars

----------------------------------------------------------------------------
(* Step 6 on its own: run_trading_cycle has reached the placing loop with *)
(* nothing held and a filtered list that the capital filter let through   *)
(* whole.                                                                  *)

\* Tenths of a cent on either side of a tie, the tie on an even and on an
\* odd cent.
Mills == {0, 4, 5, 6, 15}

\* Trade ideas for A on both sides, with prices between the cents.
PlaceIdeas ==
    {[NoIdea EXCEPT
        !.ticker = "A", !.side = sd,
        !.action = IF sd = "buy" THEN "BUY (Limit)" ELSE "SELL SHORT (Limit)",
        !.quantity = q,
        !.entry_price = 10000 + a,
        !.stop_loss = (IF sd = "buy" THEN 9600 ELSE 10400) + b,
        !.target_price = (IF sd = "buy" THEN 10600 ELSE 9400) + c,
        !.total_capital = q * (10000 + a)] :
       sd \in {"buy", "sell"}, q \in {1, 25}, a \in Mills, b \in Mills, c \in Mills}

\* The filtered lists: an idea for A, alone or followed by the idea
\* analyze_stock gives for B.
PlaceLists(account_value) ==
    LET other == analyze_stock("B", account_value, ShortSetup, FALSE,
                               bull_long_multiplier, bull_short_multiplier)
    IN {<<i>> : i \in PlaceIdeas} \cup {<<i, other>> : i \in PlaceIdeas}

InitPlace ==
    /\ cfg \in {c \in ExitConfigs({{"A", "B"}}) :
                  c.trailing_stop_enabled /\ ~c.ema_exit_enabled
                    /\ ~calendar_exit_enabled(c)}
    /\ now = MaxTime
    /\ buying_power \in BuyingPowers
    /\ positions = NoPositions
    /\ orders = {}
    /\ closedFills = [s \in Syms |-> {}]
    /\ nextId = 1
    /\ pc = "step6"
    /\ positions_to_close = {}
    /\ eligible_positions = {}
    /\ closeVisited = {}
    /\ current_positions = {}
    /\ available_capital = buying_power
    /\ results \in PlaceLists(buying_power)
    /\ filtered = results
    /\ orders_placed = 0
    /\ faults = 0
    /\ calls = <<>>
    /\ hist = [HistInit EXCEPT !.capRead = TRUE, !.analysed = TRUE]
    /\ Unscheduled

NextPlace ==
    \/ Step6Place
    \/ Step6Done

SpecPlace == InitPlace /\ [][NextPlace]_vars

----------------------------------------------------------------------------
(* Steps 5 and 6 on their own: run_trading_cycle has the results of       *)
(* analyze and the available capital, and nothing is held.                *)

MaxIdeas == 3

\* total_capital of the ideas and the buying power of the account, in mills
Capitals == {300000, 500000, 1200000}
AvailableCapitals == {0, 800000, 1000000, 2000000}

FilterIdeas ==
    {[NoIdea EXCEPT !.ticker = t, !.side = "buy", !.action = "BUY (Limit)",
                    !.quantity = 1, !.entry_price = c, !.stop_loss = c - 10000,
                    !.target_price = c + 15000, !.total_capital = c] :
       t \in Syms, c \in Capitals}

FilterLists == UNION {[1..n -> FilterIdeas] : n \in 0..MaxIdeas}

InitFilter ==
    /\ cfg \in {c \in ExitConfigs({{"A", "B"}}) :
                  c.trailing_stop_enabled /\ ~c.ema_exit_enabled
                    /\ ~calendar_exit_enabled(c)}
    /\ now = MaxTime
    /\ buying_power \in AvailableCapitals
    /\ positions = NoPositions
    /\ orders = {}
    /\ closedFills = [s \in Syms |-> {}]
    /\ nextId = 1
    /\ pc = "step5"
    /\ positions_to_close = {}
    /\ eligible_positions = {}
    /\ closeVisited = {}
    /\ current_positions = {}
    /\ available_capital = buying_power
    /\ results \in FilterLists
    /\ filtered = <<>>
    /\ orders_placed = 0
    /\ faults = 0
    /\ calls = <<>>
    /\ hist = [HistInit EXCEPT !.capRead = TRUE, !.analysed = TRUE]
    /\ Unscheduled

NextFilter ==
    \/ Step5
    \/ Step6Place
    \/ Step6Done

SpecFilter == InitFilter /\ [][NextFilter]_vars

----------------------------------------------------------------------------
(* Steps 4 and 5 on their own: the screener over a wider market *)

\* Closes around a 50-day mean of 10.000: 5 percent below, just inside the
\* band, 2 percent below, on the mean, and the same above.
ScreenCloses == {9500, 9502, 9800, 10000, 10200, 10498, 10500}

ScreenData ==
    UNION {{[len |-> MinBars, close |-> c, sma_50 |-> 10000, sma_200 |-> t,
             volume |-> 13, avg_volume_20 |-> 10] : t \in {9000, c, 11000}} :
           c \in ScreenCloses}
    \cup {ThinVolume, [ShortSetup EXCEPT !.volume = 12],
          [LongSetup EXCEPT !.len = MinBars - 1], NoBars}

ScreenAccounts == {100000, 2000000}
BaseRiskPercents == {base_risk_percent, 2 * base_risk_percent}

InitScreen ==
    /\ cfg \in WithBaseRisk({c \in ExitConfigs({{"A", "B"}}) :
                                /\ ~c.ema_exit_enabled
                                /\ c.max_hold_days = 0
                                /\ c.trailing_stop_enabled},
                            BaseRiskPercents)
    /\ now = MaxTime
    /\ buying_power \in ScreenAccounts
    /\ positions = NoPositions
    /\ orders = {}
    /\ closedFills = [s \in Syms |-> {}]
    /\ nextId = 1
    /\ pc = "step4"
    /\ positions_to_close = {}
    /\ eligible_positions = {}
    /\ closeVisited = {}
    /\ current_positions = {}
    /\ available_capital = buying_power
    /\ results = <<>>
    /\ filtered = <<>>
    /\ orders_placed = 0
    /\ faults = 0
    /\ calls = <<Call("get_account", "", 0, TRUE, NullOrder)>>
    /\ hist = [HistInit EXCEPT !.capRead = TRUE]
    /\ Unscheduled

Step4Screen == Analyze(TickerFiles(cfg.universe), BOOLEAN, ScreenData)

NextScreen ==
    \/ Step4Screen
    \/ Step5

SpecScreen == InitScreen /\ [][NextScreen]_vars

----------------------------------------------------------------------------
(* Step 1 on its own: the exit rules over two held positions *)

\* A position in symbol that an earlier run opened as order number k, with
\* its bracket legs open; fills is what the order history holds for it.
HeldPosition(symbol, k, d, p, fills, account_value) ==
    LET idea == analyze_stock(symbol, account_value, d, FALSE,
                              bull_long_multiplier, bull_short_multiplier)
        o == BracketRequest(idea, k)
    IN [position |-> [PositionFrom(o) EXCEPT !.current_price = p,
                        !.opened_at = IF fills = {} THEN 0 ELSE MinOf(fills)],
        orders |-> BracketLegs(o), fills |-> fills]

\* The order histories: one fill up to now, or none that the query returns
FillHistories == {{t} : t \in 0..MaxTime} \cup {{}}

\* A broker holding A and B
TwoPositionBrokers(account_value) ==
    {[positions |-> [s \in Syms |-> IF s = "A" THEN a.position ELSE b.position],
      orders |-> a.orders \cup b.orders,
      closedFills |-> [s \in Syms |-> IF s = "A" THEN a.fills ELSE b.fills]] :
       a \in {HeldPosition("A", 0, d, p, f, account_value) :
                 d \in MarketData, p \in PriceLevels, f \in FillHistories},
       b \in {HeldPosition("B", -1, d, p, f, account_value) :
                 d \in MarketData, p \in PriceLevels, f \in FillHistories}}

InitExits ==
    InitAt({c \in ExitConfigs({Syms}) : any_exit_enabled(c)},
           [v \in BuyingPowers |-> TwoPositionBrokers(v)])

NextExits ==
    \/ StartCycle
    \/ Step1a
    \/ Step1b
    \/ Step1c
    \/ \E s \in Syms : Step1cPosition(s)
    \/ \E s \in Syms : Step1dClose(s)
    \/ Step1dDone
    \/ UncaughtError

SpecExits == InitExits /\ [][NextExits]_vars

----------------------------------------------------------------------------
(* main and bot_main: the scheduler around the cycle *)

MaxDays == 1
LastDay == MaxTime + MaxDays

\* The bot is started before the open or during the session
StartMinutes == {WakeMinute, 600}

\* The account is flat or holds one position whose entry filled on day 0
SchedulerBrokers(account_value) ==
    {b \in InitialBrokers(account_value) : b.closedFills["A"] \subseteq {0}}

InitScheduler ==
    /\ cfg \in ExitConfigs({{"A"}})
    /\ now = MaxTime
    /\ buying_power \in BuyingPowers
    /\ \E b \in SchedulerBrokers(buying_power) :
         /\ positions = b.positions
         /\ orders = b.orders
         /\ closedFills = b.closedFills
    /\ nextId = 1
    /\ pc = "main"
    /\ positions_to_close = {}
    /\ eligible_positions = {}
    /\ closeVisited = {}
    /\ current_positions = {}
    /\ available_capital = 0
    /\ results = <<>>
    /\ filtered = <<>>
    /\ orders_placed = 0
    /\ faults = 0
    /\ calls = <<>>
    /\ hist = HistInit
    /\ minute \in StartMinutes
    /\ session \in Sessions
    /\ next_run = NoRun
    /\ today = NoCycles

\* main: the start-up validation, then bot_main
Main ==
    /\ pc = "main"
    /\ pc' = IF ~any_exit_enabled(cfg) THEN "exited" ELSE "loop"
    /\ UNCHANGED <<cfg, schedVars, now, brokerVars, cycleVars, faults, calls, hist>>

\* The cycle that has just returned, if any, ended at minute m
Ended(cycles, m) ==
    IF cycles # <<>> /\ cycles[Len(cycles)].ended = NoRun
    THEN [cycles EXCEPT ![Len(cycles)].ended = m]
    ELSE cycles

\* bot_main, one turn of the loop up to its sleep: the time is read, the
\* calendar is asked for today, the next run time is looked for.
Schedule ==
    /\ pc = "loop"
    /\ \E fails \in BOOLEAN :
         LET schedule == get_market_schedule(session, fails)
             run_times == calculate_run_times(schedule.open, schedule.close)
             found == IF schedule = Closed THEN NoRun
                      ELSE FirstAfter(run_times, minute)
         IN /\ fails => faults < MaxFaults
            /\ faults' = IF fails THEN faults + 1 ELSE faults
            /\ next_run' = found
            /\ pc' = IF found = NoRun THEN "sleep_tomorrow" ELSE "sleep_run"
            /\ calls' = <<Call("get_calendar", "", 0, ~fails, NullOrder)>>
    /\ today' = [since |-> IF today.since = NoRun THEN minute ELSE today.since,
                 cycles |-> Ended(today.cycles, minute)]
    /\ UNCHANGED <<cfg, now, minute, session, brokerVars, cycleVars, hist>>

\* time.sleep(sleep_seconds) up to next_run; run_trading_cycle is called next
WakeUp ==
    /\ pc = "sleep_run"
    /\ minute' = next_run
    /\ pc' = "call"
    /\ today' = [today EXCEPT
          !.cycles = Append(@, [began |-> next_run, ended |-> NoRun])]
    /\ calls' = <<>>
    /\ UNCHANGED <<cfg, now, session, next_run, brokerVars, cycleVars, faults, hist>>

CallCycle == EnterCycle("call")

ReturnToLoop == LeaveCycle("loop")

\* The calls of a cycle hang: it returns only at a later run time of the day
Overrun ==
    /\ pc = "done"
    /\ faults < MaxFaults
    /\ faults' = faults + 1
    /\ \E i \in 1..3 :
         LET rt == calculate_run_times(session.open, session.close)[i]
         IN rt > minute /\ minute' = rt
    /\ UNCHANGED <<cfg, now, session, next_run, today, brokerVars, cycleVars,
                   pc, calls, hist>>

\* sleep_until_tomorrow: 04:00 of the day after now
sleep_until_tomorrow(day) == [day |-> day + 1, minute |-> WakeMinute]

SleepUntilTomorrow ==
    /\ pc = "sleep_tomorrow"
    /\ now < LastDay
    /\ now' = sleep_until_tomorrow(now).day
    /\ minute' = sleep_until_tomorrow(now).minute
    /\ session' \in Sessions
    /\ today' = NoCycles
    /\ pc' = "loop"
    /\ calls' = <<>>
    /\ UNCHANGED <<cfg, next_run, brokerVars, cycleVars, faults, hist>>

NextScheduler ==
    \/ Main
    \/ Schedule
    \/ WakeUp
    \/ CallCycle
    \/ Step1a
    \/ Step1b
    \/ Step1c
    \/ \E s \in Syms : Step1cPosition(s)
    \/ \E s \in Syms : Step1dClose(s)
    \/ Step1dDone
    \/ Step2
    \/ Step3
    \/ Step4
    \/ Step5
    \/ Step6Place
    \/ Step6Done
    \/ Overrun
    \/ ReturnToLoop
    \/ SleepUntilTomorrow
    \/ UncaughtError

SpecScheduler == InitScheduler /\ [][NextScheduler]_vars

SpecZeroQuantity == InitZeroQuantity /\ [][Next]_vars

----------------------------------------------------------------------------
(* Properties *)

EntryCall(c) == c.op = "submit_order" /\ c.order.role = "entry"

TrailingCall(c) == c.op = "submit_order" /\ c.order.type = "trailing_stop"

\* C1: within one cycle no entry bracket order is submitted for a symbol
\* of the position set read at Step 2, and no symbol has more than one
\* successful entry placement, also when the filtered list holds two ideas
\* for it.
C1_OneEntryPerSymbol ==
    /\ \A s \in Syms : hist.placed[s] <= 1
    /\ \A i \in 1..Len(calls) :
         EntryCall(calls[i]) => calls[i].symbol \notin hist.held

\* C1, its case: a cycle has ended whose ideas were two for one symbol, and
\* one of them was placed.
C1_Witness ==
    /\ pc = "done"
    /\ Len(results) = 2
    /\ results[1].ticker = results[2].ticker
    /\ hist.placed[results[1].ticker] = 1

\* C2: no step of any cycle submits an entry bracket order for a symbol
\* whose earlier entry is still live at the broker, as a held position or
\* as an open, unfilled entry order of an earlier cycle.
C2_NoEntryWhileLive ==
    [][\A i \in 1..Len(calls') :
         (pc = "step6" /\ EntryCall(calls'[i]))
           => /\ calls'[i].symbol \notin Held
              /\ ~\E o \in orders :
                    o.symbol = calls'[i].symbol /\ o.role = "entry"]_vars

\* C3: Close and ActivateTrailingStop exclude each other: no trailing-stop
\* order is submitted in a cycle for a symbol the calendar or the EMA rule
\* has put in the Close set.
C3_CloseWins ==
    \A i \in 1..Len(calls) :
      TrailingCall(calls[i]) => calls[i].symbol \notin positions_to_close

\* C4: every step of a cycle that issues an exit action (a cancellation, a
\* close, a trailing-stop submission) comes before the cycle has read the
\* buying power, evaluated the entries or placed one.
C4_ExitsBeforeEntries ==
    [][IssuesExit(calls')
         => /\ ~hist.capRead
            /\ ~hist.analysed
            /\ \A s \in Syms : hist.placed[s] = 0]_vars

\* C4, its case: a cycle has ended that cancelled orders of a position
\* and, after reading the buying power, placed an entry.
C4_Witness ==
    /\ pc = "done"
    /\ hist.cancelled # {}
    /\ hist.capRead /\ hist.analysed
    /\ \E s \in Syms : hist.placed[s] = 1

\* C5: with the calendar exit enabled and max_hold_days = D, right after
\* Step 1a a held position whose opened_at (the earliest fill the order
\* history returned) lies more than D days back is in the Close set,
\* whatever the EMA and trailing-stop toggles, and one of age D or less is
\* not.
C5_CalendarStrict ==
    (pc = "step1b" /\ calendar_exit_enabled(cfg))
      => \A s \in Held :
           (s \notin hist.raising /\ closedFills[s] # {})
             => LET opened_at == MinOf(closedFills[s])
                IN s \in positions_to_close
                     <=> now - opened_at > cfg.max_hold_days

\* C5, its case: Step 1a has run with the EMA and trailing-stop rules off
\* on a position of age exactly max_hold_days, and has not flagged it.
C5_Witness ==
    /\ pc = "step1b"
    /\ calendar_exit_enabled(cfg)
    /\ ~cfg.ema_exit_enabled /\ ~cfg.trailing_stop_enabled
    /\ \E s \in Held \ hist.raising :
         /\ closedFills[s] # {}
         /\ now - MinOf(closedFills[s]) = cfg.max_hold_days
         /\ s \notin positions_to_close

\* C6: right after Step 1b, of the held positions whose price and EMA were
\* available the EMA rule has flagged the longs with price < EMA and the
\* shorts with price > EMA and no other; none with price = EMA.
C6_EmaRule ==
    (pc = "step1c" /\ cfg.ema_exit_enabled)
      => \A s \in Held :
           hist.lookup[s] # NoData
             => /\ positions[s].qty > 0
                     => (s \in hist.ema <=> hist.lookup[s].price < hist.lookup[s].ema)
                /\ positions[s].qty < 0
                     => (s \in hist.ema <=> hist.lookup[s].price > hist.lookup[s].ema)
                /\ hist.lookup[s].price = hist.lookup[s].ema => s \notin hist.ema

\* C6, its case: Step 1b has looked at a short position with price = EMA.
C6_Witness ==
    /\ pc = "step1c"
    /\ cfg.ema_exit_enabled
    /\ \E s \in Held :
         /\ positions[s].qty < 0
         /\ hist.lookup[s] # NoData
         /\ hist.lookup[s].price = hist.lookup[s].ema
         /\ s \notin hist.ema

\* C7: no turn of the loop of Step 1c submits a trailing-stop order for a
\* symbol that carries an open trailing-stop order already.
C7_ActivationIdempotent ==
    [][\A i \in 1..Len(calls') :
         (pc = "step1c_loop" /\ TrailingCall(calls'[i]))
           => ~\E o \in orders :
                 o.symbol = calls'[i].symbol /\ o.type = "trailing_stop"]_vars

\* C7, its case: the trailing-stop step has run again on a position that
\* still has the gain and carries the trailing stop of an earlier run, and
\* has called no activation.
C7_Witness ==
    /\ pc = "step1d"
    /\ cfg.trailing_stop_enabled
    /\ hist.tsAttempts = {}
    /\ \E s \in Held :
         /\ s \in hist.tsOpen
         /\ s \in get_positions_for_trailing_stop(trailing_stop_activation_pct,
                                                  short_trailing_stop_activation_pct)
         /\ \E o \in OpenOrders(s) : o.type = "trailing_stop"

\* C8: with the trailing-stop rule enabled, when the loop of Step 1c has
\* ended the activations it has called are those of the positions whose
\* gain percent has reached the activation threshold of their side and
\* that carried no open trailing-stop order, each with the trail percent
\* of its side.
C8_ActivationRule ==
    (pc = "step1d" /\ closeVisited = {} /\ cfg.trailing_stop_enabled)
      => LET gain100(s) ==
                 IF positions[s].qty > 0
                 THEN (positions[s].current_price - positions[s].avg_entry_price) * 100
                 ELSE (positions[s].avg_entry_price - positions[s].current_price) * 100
             threshold(s) ==
                 IF positions[s].qty > 0 THEN trailing_stop_activation_pct
                 ELSE short_trailing_stop_activation_pct
             trail(s) ==
                 IF positions[s].qty > 0 THEN trailing_stop_trail_pct
                 ELSE short_trailing_stop_trail_pct
             due == {s \in Held :
                       /\ gain100(s) >= threshold(s) * positions[s].avg_entry_price
                       /\ s \notin hist.tsOpen}
         IN hist.tsAttempts =
              {[symbol |-> s, trail_percent |-> trail(s)] : s \in due}

\* C8, its case: Step 1c has called the activation for a short position
\* whose gain is exactly the short threshold, with the short trail percent.
C8_Witness ==
    /\ pc = "step1d" /\ closeVisited = {} /\ cfg.trailing_stop_enabled
    /\ \E s \in Held :
         /\ positions[s].qty < 0
         /\ (positions[s].avg_entry_price - positions[s].current_price) * 100
              = short_trailing_stop_activation_pct * positions[s].avg_entry_price
         /\ [symbol |-> s, trail_percent |-> short_trailing_stop_trail_pct]
              \in hist.tsAttempts

\* The symbol a turn of the loop of Step 1d has just visited.
JustVisited == CHOOSE s \in closeVisited' \ closeVisited : TRUE

\* The calls are one cancellation for each of these orders and then the close.
CancelsThenCloses(cs, symbol, open) ==
    /\ Len(cs) = Cardinality(open) + 2
    /\ \A i \in 2..(Len(cs) - 1) : cs[i].op = "cancel_order_by_id"
    /\ {cs[i].id : i \in 2..(Len(cs) - 1)} = {o.id : o \in open}
    /\ cs[Len(cs)].op = "close_position"
    /\ cs[Len(cs)].symbol = symbol

C10_NoOrphan ==
    pc = "done"
      => \A s \in Held \cap hist.cancelled :
           \E o \in OpenOrders(s) : o.role \in ExitRoles

\* The calls are the two reads, one cancellation for each of these orders
\* and then one submission, of a trailing stop that closes a position of
\* qty shares with this trail percent.
CancelsThenTrails(cs, symbol, open, qty, trail_percent) ==
    /\ Len(cs) = Cardinality(open) + 3
    /\ cs[1].op = "get_open_position" /\ cs[2].op = "get_orders"
    /\ \A i \in 3..(Len(cs) - 1) : cs[i].op = "cancel_order_by_id"
    /\ {cs[i].id : i \in 3..(Len(cs) - 1)} = {o.id : o \in open}
    /\ LET last == cs[Len(cs)]
       IN /\ last.op = "submit_order"
          /\ last.symbol = symbol
          /\ last.order.symbol = symbol
          /\ last.order.type = "trailing_stop"
          /\ last.order.trail_percent = trail_percent
          /\ qty > 0 => last.order.side = "sell" /\ last.order.qty = qty
          /\ qty < 0 => last.order.side = "buy" /\ last.order.qty = -qty

\* The trail percent Step 1c passes for a position of this quantity.
TrailOf(qty) ==
    IF qty > 0 THEN trailing_stop_trail_pct ELSE short_trailing_stop_trail_pct

C12_ZeroQuantityUntouched ==
    [][(pc = "step1c_loop" /\ calls' # <<>>
          /\ positions[calls'[1].symbol].qty = 0)
         => /\ \A i \in 1..Len(calls') :
                 calls'[i].op \notin {"cancel_order_by_id", "submit_order"}
            /\ orders' = orders
            /\ positions' = positions
            /\ nextId' = nextId
            /\ hist'.activated_count = hist.activated_count]_vars

\* C12, its case: Step 1c has called the activation for a position of
\* quantity zero that has open orders, and its read of the position
\* answered.
C12_Witness ==
    /\ pc = "step1d" /\ closeVisited = {}
    /\ hist.tsAttempts # {}
    /\ \E s \in Held : positions[s].qty = 0 /\ OpenOrders(s) # {}
    /\ Len(calls) = 1 /\ calls[1].op = "get_open_position" /\ calls[1].ok

\* The price is in whole cents and no cent is nearer to x.
RoundedToCent(price, x) ==
    /\ price % 10 = 0
    /\ price - x <= 5
    /\ x - price <= 5

\* C13: the bracket order place_bracket_order submits for a trade idea has
\* the idea's ticker and whole share count, BUY for side buy and SELL for
\* side sell, limit, stop and take-profit prices that are entry_price,
\* stop_loss and target_price rounded to the cent, and is a
\* good-till-canceled bracket.
C13_BracketFollowsIdea ==
    [][(pc = "step6" /\ filtered # <<>> /\ calls' # <<>>)
         => LET trade == Head(filtered)
                o == calls'[1].order
            IN /\ Len(calls') = 1
               /\ calls'[1].op = "submit_order"
               /\ o.symbol = trade.ticker
               /\ o.qty = trade.quantity
               /\ trade.side = "buy" => o.side = "buy"
               /\ trade.side = "sell" => o.side = "sell"
               /\ o.type = "limit"
               /\ RoundedToCent(o.limit_price, trade.entry_price)
               /\ RoundedToCent(o.stop_price, trade.stop_loss)
               /\ RoundedToCent(o.take_profit, trade.target_price)
               /\ o.time_in_force = "gtc"
               /\ o.order_class = "bracket"
               /\ o.trail_percent = 0]_vars

\* C13, its case: a short idea whose three prices lie 6 tenths of a cent
\* above a cent was placed as an order priced at the next cent.
C13_Witness ==
    /\ pc = "step6"
    /\ Len(results) = 1 /\ filtered = <<>>
    /\ results[1].side = "sell"
    /\ results[1].entry_price % 10 = 6
    /\ results[1].stop_loss % 10 = 6
    /\ results[1].target_price % 10 = 6
    /\ \E o \in orders :
         /\ o.side = "sell"
         /\ o.limit_price = results[1].entry_price + 4
         /\ o.stop_price = results[1].stop_loss + 4
         /\ o.take_profit = results[1].target_price + 4

\* C14: when the broker rejects the entry submission of an idea, the
\* turn of the placing loop makes that one attempt only, leaves the orders,
\* the held set and the placed-order count as they were, drops the idea
\* and stays in the loop for the ideas that remain.
C14_RejectedIdeaDropped ==
    [][(pc = "step6" /\ filtered # <<>> /\ calls' # <<>> /\ ~calls'[1].ok)
         => /\ Len(calls') = 1
            /\ orders' = orders
            /\ nextId' = nextId
            /\ current_positions' = current_positions
            /\ orders_placed' = orders_placed
            /\ hist'.placed = hist.placed
            /\ filtered' = Tail(filtered)
            /\ pc' = "step6"]_vars

\* C14, its case: the entry for A was rejected, and the loop went on to
\* place the idea for B.
C14_Witness ==
    /\ pc = "done"
    /\ Len(results) = 2
    /\ faults = 1
    /\ orders_placed = 1
    /\ current_positions = {"B"}
    /\ {o.symbol : o \in orders} = {"B"}

\* The ideas of rs at the places K, in the order of rs.
RECURSIVE IdeasAt(_, _)
IdeasAt(rs, K) ==
    IF rs = <<>> THEN <<>>
    ELSE LET front == IdeasAt(SubSeq(rs, 1, Len(rs) - 1), K)
         IN IF Len(rs) \in K THEN Append(front, rs[Len(rs)]) ELSE front

\* The total capital of the ideas of rs at the places K.
RECURSIVE CapitalAt(_, _)
CapitalAt(rs, K) ==
    IF K = {} THEN 0
    ELSE LET i == CHOOSE j \in K : TRUE
         IN rs[i].total_capital + CapitalAt(rs, K \ {i})

\* C15: Step 5 leaves in filtered the ideas of results at the places K, in
\* their order, where an idea is in K iff its total_capital is at most
\* available_capital less the total capital of the ideas of K before it;
\* their total capital is at most available_capital.
C15_GreedyFilter ==
    [][pc = "step5"
         => \E K \in SUBSET DOMAIN results :
              /\ \A i \in DOMAIN results :
                   i \in K <=>
                     results[i].total_capital
                       <= available_capital
                            - CapitalAt(results, {j \in K : j < i})
              /\ filtered' = IdeasAt(results, K)
              /\ CapitalAt(results, K) <= available_capital]_vars

\* C15, its case: ideas of total capital 500, 300 and 1200 dollars with
\* 1000 dollars available have been filtered to the first two, 200 dollars
\* remaining.
C15_Witness ==
    /\ pc = "step6"
    /\ Len(results) = 3
    /\ results[1].total_capital = 500000
    /\ results[2].total_capital = 300000
    /\ results[3].total_capital = 1200000
    /\ available_capital = 1000000
    /\ filtered = SubSeq(results, 1, 2)
    /\ available_capital - CapitalAt(filtered, {1, 2}) = 200000

----------------------------------------------------------------------------
(* The screener and the sizer *)

\* What get_market_regime() made of the SPY bars of the analysis
BullishIn(cs) == cs[2].bars.close > cs[2].bars.sma_200

\* The regime multiplier, in halves: full size in the favoured direction
RegimeMultiplier(is_bullish, side) ==
    IF is_bullish = (side = "buy") THEN 2 ELSE 1

RiskPerShare(r) == Abs(r.entry_price - r.stop_loss)

\* Step 4 has analysed the tickers in this step
Analysed == pc = "step4" /\ pc' = "step5"

\* C16: the sizer gives floor(risk_budget / risk_per_share) shares, so that
\* shares * risk_per_share <= risk_budget, and gives no idea when
\* risk_per_share <= 0 or when that floor is 0.  The risk budget is
\* account_value * 0.005 * multiplier; with an account of 100000, multiplier
\* 1.0, entry 100 and stop 98 the sizer gives 250 shares.  Every idea of an
\* analysis carries at least one share, the floor of its budget over its
\* risk per share.
C16_SizerFloor ==
    /\ _build_trade_result("A", "buy", 100000, 98000, 103000, 100000, 90000,
                           100000000, 2).quantity = 250
    /\ \A side \in {"buy", "sell"}, m \in {1, 2} :
          _build_trade_result("A", side, 10000, 10000, 10000, 10000, 9000,
                              buying_power, m) = NoIdea
    /\ [][Analysed =>
            \A i \in DOMAIN results' :
                LET r == results'[i]
                    budget == buying_power * RISK_PERCENT
                                * RegimeMultiplier(BullishIn(calls'), r.side)
                    risk_per_share == RiskPerShare(r)
                IN /\ risk_per_share > 0
                   /\ r.quantity >= 1
                   /\ r.quantity * risk_per_share * 2000 <= budget
                   /\ budget < (r.quantity + 1) * risk_per_share * 2000
                   /\ r.max_loss = r.quantity * risk_per_share]_vars

\* A bearish analysis of two tickers on an account of 100: the long setup,
\* budget 0.25 at a risk of 0.40 a share, gives no idea; the short one,
\* budget 0.50, gives one share, the floor of 1.25.
C16_Witness ==
    /\ pc = "step5"
    /\ buying_power = 100000
    /\ ~BullishIn(calls)
    /\ Len(calls) = 4
    /\ calls[3].ok /\ calls[4].ok
    /\ calls[3].bars = [len |-> MinBars, close |-> 10200, sma_50 |-> 10000,
                        sma_200 |-> 9000, volume |-> 13, avg_volume_20 |-> 10]
    /\ calls[4].bars = [len |-> MinBars, close |-> 9800, sma_50 |-> 10000,
                        sma_200 |-> 11000, volume |-> 13, avg_volume_20 |-> 10]
    /\ Len(results) = 1
    /\ results[1].ticker = calls[4].symbol
    /\ results[1].side = "sell"
    /\ RiskPerShare(results[1]) = 400
    /\ results[1].quantity = 1

\* C17: the risk budget that sizes every idea is account_value times the
\* configured base risk percent (BASE_RISK_PERCENT) times the regime
\* multiplier: 1.0 for longs and 0.5 for shorts in a bullish regime, 0.5
\* for longs and 1.0 for shorts in a bearish one.  Every idea of an analysis
\* carries the floor of that budget over its risk per share.
C17_ConfiguredRiskBudget ==
    [][Analysed =>
        \A i \in DOMAIN results' :
            LET r == results'[i]
                budget == buying_power * cfg.base_risk_percent
                            * RegimeMultiplier(BullishIn(calls'), r.side)
            IN /\ r.quantity * RiskPerShare(r) * 2000 <= budget
               /\ budget < (r.quantity + 1) * RiskPerShare(r) * 2000]_vars

\* The bars the analysis read for a ticker
BarsRead(cs, ticker) ==
    {cs[i].bars : i \in {j \in 3..Len(cs) : cs[j].symbol = ticker /\ cs[j].ok}}

\* C18: a long idea comes only from bars with close > SMA200 and
\* 0 < (close - SMA50) / SMA50 < 0.05, with stop = SMA50 * 0.98 and
\* target = close + 1.5 * (close - stop); a short idea only from bars with
\* close < SMA200 and -0.05 < (close - SMA50) / SMA50 < 0, with
\* stop = SMA50 * 1.02 and target = close - 1.5 * (stop - close).  The stop
\* is on the losing side of the entry, the target on the winning side, and
\* the reward is 1.5 times the risk.
C18_SetupRules ==
    [][Analysed =>
        \A i \in DOMAIN results' :
            LET r == results'[i]
            IN \E d \in BarsRead(calls', r.ticker) :
                /\ r.entry_price = d.close
                /\ r.side \in {"buy", "sell"}
                /\ r.side = "buy" =>
                      /\ d.close > d.sma_200
                      /\ 0 < d.close - d.sma_50
                      /\ (d.close - d.sma_50) * 100 < 5 * d.sma_50
                      /\ r.stop_loss * 100 = d.sma_50 * 98
                      /\ 2 * (r.target_price - d.close) = 3 * (d.close - r.stop_loss)
                      /\ r.stop_loss < r.entry_price
                      /\ r.entry_price < r.target_price
                /\ r.side = "sell" =>
                      /\ d.close < d.sma_200
                      /\ (d.close - d.sma_50) * 100 > -5 * d.sma_50
                      /\ d.close - d.sma_50 < 0
                      /\ r.stop_loss * 100 = d.sma_50 * 102
                      /\ 2 * (d.close - r.target_price) = 3 * (r.stop_loss - d.close)
                      /\ r.stop_loss > r.entry_price
                      /\ r.entry_price > r.target_price
                /\ 2 * r.risk_reward_ratio.num = 3 * r.risk_reward_ratio.den]_vars

\* An analysis with a long idea from a close 4.98 percent above the mean
\* and a short idea from one 4.98 percent below it
C18_Witness ==
    /\ pc = "step5"
    /\ \E i, j \in DOMAIN results :
          /\ results[i].side = "buy"
          /\ results[i].entry_price = 10498
          /\ results[i].stop_loss = 9800
          /\ results[i].target_price = 11545
          /\ results[j].side = "sell"
          /\ results[j].entry_price = 9502
          /\ results[j].stop_loss = 10200
          /\ results[j].target_price = 8455

\* The lines of the ticker file the analysis looked up, and its ideas, for
\* one ticker
LinesOf(cs, ticker) == {j \in 3..Len(cs) : cs[j].symbol = ticker}
IdeasOf(rs, ticker) == {i \in DOMAIN rs : rs[i].ticker = ticker}

\* The long setup of the claims: uptrend and pullback, on enough bars and
\* volume
LongQualifies(d) ==
    /\ d.len >= MinBars
    /\ d.volume * 10 > d.avg_volume_20 * 12
    /\ d.close > d.sma_200
    /\ 0 < d.close - d.sma_50
    /\ (d.close - d.sma_50) * 100 < 5 * d.sma_50

MissingData(c) ==
    \/ ~c.ok
    \/ c.bars.len = 0
    \/ c.bars.len < 200
    \/ c.bars.volume * 10 <= c.bars.avg_volume_20 * 12

\* The lines of the ticker file as the analysis looked them up
LookedUp(cs) == SubSeq(cs, 3, Len(cs))

RECURSIVE SymbolsOf(_)
SymbolsOf(cs) ==
    IF cs = <<>> THEN <<>> ELSE <<Head(cs).symbol>> \o SymbolsOf(Tail(cs))

\* C20: a ticker whose lookup gives no usable data yields no idea, and the
\* scan goes on: the ideas of the analysis are those of the same scan with
\* the lines lacking data left out of the ticker file.
C20_MissingDataSkipped ==
    [][Analysed =>
        LET lines == LookedUp(calls')
            usable == SelectSeq(lines, LAMBDA c : ~MissingData(c))
            data == [t \in cfg.universe |->
                        IF BarsRead(calls', t) = {} THEN NoBars
                        ELSE CHOOSE d \in BarsRead(calls', t) : TRUE]
        IN /\ \A j \in DOMAIN lines :
                 MissingData(lines[j]) =>
                    IdeasOf(results', lines[j].symbol) = {}
           /\ results' = analyze(SymbolsOf(usable), buying_power,
                                 BullishIn(calls'), data, {})]_vars

\* A scan of two lines: the lookup of the first fails, the second yields an
\* idea
C20_Witness ==
    /\ pc = "step5"
    /\ Len(calls) = 4
    /\ ~calls[3].ok
    /\ calls[4].ok
    /\ Len(results) = 1
    /\ results[1].ticker = calls[4].symbol

----------------------------------------------------------------------------
(* The exit rules on missing data *)

\* Step 1b has run the EMA rule in this step
EmaRuleRan == pc = "step1b" /\ cfg.ema_exit_enabled /\ pc' = "step1c"

\* C21: a held symbol whose price/EMA lookup fails or returns too few bars
\* is skipped by the EMA rule: the rule does not add it to the close set,
\* and every other position is still evaluated against its own price and
\* EMA.
C21_EmaSkipsMissingData ==
    [][EmaRuleRan =>
        \A s \in Held :
            IF hist'.lookup[s] = NoData
            THEN /\ s \notin hist'.ema
                 /\ s \in positions_to_close' <=> s \in positions_to_close
            ELSE LET fails ==
                         IF positions[s].qty > 0
                         THEN hist'.lookup[s].price < hist'.lookup[s].ema
                         ELSE hist'.lookup[s].price > hist'.lookup[s].ema
                 IN /\ s \in hist'.ema <=> fails
                    /\ fails => s \in positions_to_close']_vars

\* The lookup for A gave nothing and A is not in the close set; B, looked
\* up in the same pass, failed its EMA and is.
C21_Witness ==
    /\ pc = "step1c"
    /\ cfg.ema_exit_enabled
    /\ Held = {"A", "B"}
    /\ hist.lookup["A"] = NoData
    /\ "A" \notin positions_to_close
    /\ hist.lookup["B"] # NoData
    /\ "B" \in hist.ema
    /\ "B" \in positions_to_close

\* Step 1a has run the calendar rule in this step
CalendarRuleRan ==
    pc = "step1a" /\ calendar_exit_enabled(cfg) /\ pc' # "crashed"

\* C22: a held symbol with no filled order found, or whose order-history
\* query fails, is skipped by the calendar rule: it is not added to the
\* close set, the step goes on to Step 1b without an error, and every other
\* position is still judged by its own entry date.
C22_CalendarSkipsUnknownAge ==
    [][CalendarRuleRan =>
        /\ pc' = "step1b"
        /\ \A s \in Held :
              IF s \in hist'.raising \/ closedFills[s] = {}
              THEN s \notin hist'.old /\ s \notin positions_to_close'
              ELSE LET old == \E t \in closedFills[s] :
                                 t < now - cfg.max_hold_days
                   IN /\ s \in hist'.old <=> old
                      /\ s \in positions_to_close' <=> old]_vars

\* The order-history query for A, held since day 0, raised and A is not to
\* be closed; B, judged in the same pass, is too old and is.
C22_Witness ==
    /\ pc = "step1b"
    /\ calendar_exit_enabled(cfg)
    /\ Held = {"A", "B"}
    /\ hist.raising = {"A"}
    /\ closedFills["A"] = {0}
    /\ "A" \notin positions_to_close
    /\ "B" \in hist.old
    /\ "B" \in positions_to_close

----------------------------------------------------------------------------
(* The scheduler *)

\* The run timestamps of the session: the open, the midpoint, 30 minutes
\* before the close
ExpectedRunTimes == <<session.open, (session.open + session.close) \div 2, session.close - 30>>

\* The minutes at which cycles were started today
Began == [i \in DOMAIN today.cycles |-> today.cycles[i].began]

\* The scheduler first looked at this open day before the open
WaitingBeforeOpen ==
    session # Closed /\ today.since # NoRun /\ today.since < session.open

\* Cycle i returned before run timestamp i + 1
ReturnedInTime(i) ==
    /\ today.cycles[i].ended # NoRun
    /\ i < 3 => today.cycles[i].ended < ExpectedRunTimes[i + 1]

ClosedToday ==
    pc = "loop" /\ (session = Closed \/ ~calls'[1].ok)

\* C24: when the calendar reports the venue closed for today, or the
\* calendar query fails, no run is scheduled: the scheduler goes to its sleep
\* until tomorrow without starting a cycle or touching the broker, and that
\* sleep ends at 04:00 of the next day, where the calendar is queried again;
\* no cycle and no broker order in between.
C24_ClosedDay ==
    /\ [][ClosedToday =>
            /\ calls'[1].op = "get_calendar"
            /\ pc' = "sleep_tomorrow"
            /\ next_run' = NoRun
            /\ Len(today'.cycles) = Len(today.cycles)
            /\ UNCHANGED <<brokerVars, now, minute>>]_vars
    /\ [][pc = "sleep_tomorrow" =>
            /\ now' = now + 1
            /\ minute' = 240
            /\ pc' = "loop"
            /\ calls' = <<>>
            /\ UNCHANGED brokerVars]_vars

\* The calendar query failed at 04:00 of a full session: no run today
C24_Witness ==
    /\ pc = "sleep_tomorrow"
    /\ session = FullSession
    /\ minute = 240
    /\ calls # <<>>
    /\ calls[1].op = "get_calendar"
    /\ ~calls[1].ok
    /\ today.cycles = <<>>

\* C25: the scheduler loop has no terminal state: once bot_main has started,
\* whatever fails inside a cycle, the process is never ended by an error; it
\* is always in the loop, in a cycle or in one of its sleeps.
C25_NoTerminalState ==
    pc # "crashed"

\* A call made for one symbol has failed in this step
SymbolCallFailed ==
    \E i \in DOMAIN calls' : calls'[i].symbol \in Syms /\ ~calls'[i].ok

\* C27: a failure of a data or broker call made for one symbol never aborts
\* the cycle or the process: the step it fails in is followed by the rest
\* of the cycle.
C27_SymbolErrorsIsolated ==
    [][SymbolCallFailed => pc' # "crashed"]_vars

\* EMA exit off, trailing stop off and max_hold_days <= 0
NoExitMode ==
    ~cfg.ema_exit_enabled /\ ~cfg.trailing_stop_enabled /\ cfg.max_hold_days <= 0

\* The scheduler has begun: the process is past main's validation
SchedulerBegun == pc \notin {"main", "exited"}

\* C26: with no exit mode enabled main ends at its start-up validation: the
\* scheduler never begins, no calendar or cycle call is made, no cycle runs
\* and the broker is left as it was; with an exit mode enabled main goes on
\* to the scheduler, and once the scheduler has begun the validation is
\* never gone through again.
C26_StartupValidation ==
    /\ [](NoExitMode =>
            /\ ~SchedulerBegun
            /\ calls = <<>>
            /\ today = NoCycles
            /\ hist = HistInit)
    /\ [][pc = "main" => pc' = IF NoExitMode THEN "exited" ELSE "loop"]_vars
    /\ [][NoExitMode => UNCHANGED brokerVars]_vars
    /\ [][SchedulerBegun => SchedulerBegun']_vars

\* main has returned at the validation: nothing was called
C26_Witness ==
    /\ NoExitMode
    /\ pc = "exited"
    /\ calls = <<>>
    /\ today = NoCycles

\* The symbols flagged by the calendar rule and by the EMA rule in this cycle
Flagged == hist.old \cup hist.ema

\* Step 1d ends in this step
Step1dEnds == pc = "step1d" /\ pc' # "step1d"

C29_Stateless ==
    /\ [](pc = "step1a" =>
            /\ positions_to_close = {}
            /\ current_positions = {}
            /\ eligible_positions = {}
            /\ closeVisited = {}
            /\ available_capital = 0
            /\ results = <<>>
            /\ filtered = <<>>
            /\ orders_placed = 0
            /\ calls = <<>>
            /\ hist = [HistInit EXCEPT !.tsOpen =
                  {s \in Syms : \E o \in orders :
                       o.symbol = s /\ o.type = "trailing_stop"}])
    /\ [][(pc = "step1a" /\ pc' = "step1b") =>
            positions_to_close' =
               {s \in DOMAIN positions :
                  /\ cfg.max_hold_days > 0
                  /\ s \notin hist'.raising
                  /\ \E t \in closedFills[s] : t < now - cfg.max_hold_days}]_vars
    /\ [][(pc = "step2" /\ pc' = "step3") =>
            current_positions' = DOMAIN positions]_vars

\* A later cycle begins: the entry order an earlier cycle placed is open at
\* the broker, and the cycle's own sets are empty.
C29_Witness ==
    /\ pc = "step1a"
    /\ \E o \in orders : o.role = "entry" /\ o.id >= 3
    /\ positions_to_close = {}
    /\ current_positions = {}

\* C30: the calendar rule judges a position by the day it was opened: a
\* position opened fewer than max_hold_days ago is not flagged, whatever
\* older fills the symbol has from an earlier, closed position.
C30_OpenedAtOfHeldPosition ==
    [][CalendarRuleRan =>
        \A s \in Held :
           positions[s].opened_at > now - cfg.max_hold_days
              => s \notin positions_to_close']_vars

----------------------------------------------------------------------------
(* Protection and capital *)

\* The open exit orders of a symbol among these orders
ExitOrdersOf(os, symbol) == {o \in os : o.symbol = symbol /\ o.role \in ExitRoles}

\* C31: a position stays protected through a trailing-stop conversion:
\* when activate_trailing_stop returns for a position of nonzero quantity
\* that had an open exit order before the call, the position has an open
\* exit order afterwards, whether the call succeeded or failed.
C31_StaysProtected ==
    [][(pc = "step1c_loop" /\ calls' # <<>>)
         => LET symbol == calls'[1].symbol
            IN (positions[symbol].qty # 0 /\ ExitOrdersOf(orders, symbol) # {})
                 => ExitOrdersOf(orders', symbol) # {}]_vars

\* activate_trailing_stop has returned success in this step: its last call
\* is an accepted submission
TrailingStopActivated ==
    /\ pc = "step1c_loop"
    /\ calls' # <<>>
    /\ calls'[Len(calls')].op = "submit_order"
    /\ calls'[Len(calls')].ok

\* C32: after activate_trailing_stop returns success, the trailing stop,
\* sized to the full position, is the only open order of the symbol, so
\* the open exit orders never cover more shares than the position holds.
C32_OnlyTrailingStop ==
    [][TrailingStopActivated =>
         LET symbol == calls'[1].symbol
             trailing_stop_order == calls'[Len(calls')].order
         IN /\ trailing_stop_order.qty = Abs(positions[symbol].qty)
            /\ {o \in orders' : o.symbol = symbol} = {trailing_stop_order}]_vars

\* The turns of Step 6 in which an entry order was submitted
SubmittedTurns ==
    {i \in DOMAIN hist.turns : hist.turns[i].outcome \in {"placed", "failed"}}

\* The total capital of the ideas of these turns
RECURSIVE CapitalOfTurns(_)
CapitalOfTurns(K) ==
    IF K = {} THEN 0
    ELSE LET i == CHOOSE j \in K : TRUE
         IN hist.turns[i].trade.total_capital + CapitalOfTurns(K \ {i})

\* C33: in every cycle the total_capital of the ideas whose entry order was
\* submitted, accepted or not, sums to at most the buying power read at
\* Step 3; each submission of Step 6 is the entry of the idea of its turn.
C33_WithinBuyingPower ==
    /\ [](pc \in {"step6", "done"}
            => /\ available_capital = buying_power
               /\ CapitalOfTurns(SubmittedTurns) <= available_capital)
    /\ [][(pc = "step6" /\ filtered # <<>>) =>
            LET turn == hist'.turns[Len(hist'.turns)]
            IN /\ Len(hist'.turns) = Len(hist.turns) + 1
               /\ turn.trade = Head(filtered)
               /\ IF calls' = <<>> THEN turn.outcome = "skipped"
                  ELSE /\ Len(calls') = 1
                       /\ calls'[1].op = "submit_order"
                       /\ calls'[1].order.symbol = turn.trade.ticker
                       /\ calls'[1].order.role = "entry"
                       /\ turn.outcome = IF calls'[1].ok THEN "placed"
                                         ELSE "failed"]_vars

\* 1000 dollars of buying power: the entry of 500 dollars for A was placed,
\* that of 300 dollars for B was rejected, the idea of 1200 dollars was left
\* out by the filter.
C33_Witness ==
    /\ pc = "done"
    /\ available_capital = 1000000
    /\ Len(results) = 3
    /\ results[3].total_capital = 1200000
    /\ Len(hist.turns) = 2
    /\ hist.turns[1].outcome = "placed"
    /\ hist.turns[1].trade.total_capital = 500000
    /\ hist.turns[2].outcome = "failed"
    /\ hist.turns[2].trade.total_capital = 300000

\* The places of results that the filter of Step 5 let through
Kept ==
    CHOOSE K \in SUBSET DOMAIN results :
       \A i \in DOMAIN results :
          i \in K <=> results[i].total_capital
                        <= available_capital - CapitalAt(results, {j \in K : j < i})

\* The turn of Step 6 that took the idea at place j of results
TurnOf(j) == hist.turns[Cardinality({k \in Kept : k <= j})]

\* The capital of the ideas placed before the idea at place i of results
PlacedBefore(i) ==
    CapitalAt(results, {j \in Kept : j < i /\ TurnOf(j).outcome = "placed"})

\* C34: capital is consumed only by the ideas that are placed: at the end
\* of Step 6 every idea that was left out for lack of capital has a
\* total_capital above the available capital less the capital of the ideas
\* placed before it.
C34_CapitalOnlyForPlaced ==
    (pc = "done" /\ hist.analysed /\ Len(hist.turns) = Cardinality(Kept))
       => \A i \in DOMAIN results \ Kept :
             results[i].total_capital > available_capital - PlacedBefore(i)

\* The ticker file is missing or analyze raises in this step
AnalysisFails == pc = "step4" /\ calls' = <<>>

\* The first run timestamp of the session after minute m, if any
NextRunAfter(m) ==
    IF m < ExpectedRunTimes[1] THEN ExpectedRunTimes[1]
    ELSE IF m < ExpectedRunTimes[2] THEN ExpectedRunTimes[2]
    ELSE IF m < ExpectedRunTimes[3] THEN ExpectedRunTimes[3]
    ELSE NoRun

\* C35: when the ticker file is missing or the analysis raises, the cycle
\* ends there: the step leaves the broker as Step 1 left it, no entry order
\* has been or is submitted in the cycle, and run_trading_cycle returns to
\* the loop of the scheduler without touching the broker; the scheduler
\* then looks for the next run timestamp as after any cycle.
C35_AnalysisFailureEndsCycle ==
    /\ [][AnalysisFails =>
            /\ pc' = "done"
            /\ ~hist'.analysed
            /\ hist'.turns = <<>>
            /\ hist'.cancelled = hist.cancelled
            /\ UNCHANGED brokerVars]_vars
    /\ [][(pc = "done" /\ ~hist.analysed) =>
            /\ pc' \in {"done", "loop"}
            /\ calls' = <<>>
            /\ UNCHANGED brokerVars]_vars
    /\ [][(pc = "loop" /\ calls'[1].ok /\ session # Closed) =>
            /\ next_run' = NextRunAfter(minute)
            /\ pc' = IF next_run' = NoRun THEN "sleep_tomorrow" ELSE "sleep_run"
            /\ UNCHANGED brokerVars]_vars

\* The 09:30 cycle cancelled the orders of a position in Step 1 and read
\* the buying power; its analysis failed and the cycle has ended with the
\* orders still cancelled and no entry order at the broker.
C35_Witness ==
    /\ pc = "done"
    /\ session = FullSession
    /\ Len(today.cycles) = 1
    /\ today.cycles[1].began = 570
    /\ hist.capRead
    /\ ~hist.analysed
    /\ hist.cancelled = {"A"}
    /\ hist.turns = <<>>
    /\ \A o \in orders : o.role # "entry"

\* C36: every cycle starts at a run timestamp of the day that was still
\* ahead when the scheduler evaluated the day and at which no cycle has
\* started: the cycles of a day start at distinct run timestamps, in order,
\* each after the scheduler's first look at the day and after the return of
\* the cycle before it, so at most three start per day; on a closed day
\* none starts.
C36_NoLateRuns ==
    /\ [](/\ Len(today.cycles) <= 3
          /\ session = Closed => today.cycles = <<>>
          /\ \A i \in DOMAIN today.cycles :
                /\ \E k \in 1..3 : today.cycles[i].began = ExpectedRunTimes[k]
                /\ today.cycles[i].began > today.since
                /\ \A j \in DOMAIN today.cycles :
                      i < j => /\ today.cycles[i].began < today.cycles[j].began
                               /\ today.cycles[i].ended # NoRun
                               /\ today.cycles[i].ended < today.cycles[j].began)
    /\ [][pc = "sleep_run" =>
            /\ next_run > minute
            /\ next_run = NextRunAfter(minute)
            /\ minute' = next_run
            /\ pc' = "call"]_vars
    /\ [][pc = "call" => (pc' = "step1a" /\ minute' = minute)]_vars

\* The bot was started at 10:00 of a full session: the run of the open was
\* skipped, cycles started at 12:45 and 15:30 only.
C36_Witness ==
    /\ pc = "sleep_tomorrow"
    /\ session = FullSession
    /\ today.since = 600
    /\ Began = <<765, 930>>

====
